---- MODULE Spec2Model ----
(***************************************************************************)
(* Model of the location busyness engine of RU-BOT:                        *)
(*   src/gmaps/rutgers_busyness.py   resolve_and_measure_at and helpers    *)
(*   src/gmaps/busyness_helper.py    get_busyness_at_time, find_peak_time  *)
(*   src/gemini/chat_pipeline_class.py  query_busyness                     *)
(*                                                                         *)
(* Strings are tuples of one-character strings, so that substring tests,   *)
(* lower() and the time regex are computed character by character.         *)
(* Optional[int] is an integer with None == -1 (readings are 0..100).      *)
(* A datetime is a number of seconds since a Monday 00:00:00.              *)
(* A location is a number of metres north of the resolved place, so that   *)
(* the great-circle distance of two locations is their difference.         *)
(* An action is the code that runs from the return of one upstream call    *)
(* (text search, nearby search, populartimes.get_id) to the next one, or   *)
(* to the return of the entry point.                                       *)
(***************************************************************************)
EXTENDS Integers, Sequences, FiniteSets, TLC

None == -1

(* ------------------------------ bounds -------------------------------- *)
\* longest list a nearby search returns in the model (the code asks for 15)
MaxCand == 2
\* period of the hourly pattern the model's weekly grids are built from
PatLen == 2

(* ------------------------------ strings ------------------------------- *)
KW_now == <<"n","o","w">>
KW_tomorrow == <<"t","o","m","o","r","r","o","w">>
KW_today == <<"t","o","d","a","y">>
KW_am == <<"a","m">>
KW_pm == <<"p","m">>
KW_busch == <<"b","u","s","c","h">>
KW_college_ave == <<"c","o","l","l","e","g","e"," ","a","v","e">>
KW_college_avenue == <<"c","o","l","l","e","g","e"," ","a","v","e","n","u","e">>
KW_cac == <<"c","a","c">>
KW_livingston == <<"l","i","v","i","n","g","s","t","o","n">>
KW_livi == <<"l","i","v","i">>
KW_cook == <<"c","o","o","k">>
KW_douglass == <<"d","o","u","g","l","a","s","s">>
KW_doug == <<"d","o","u","g">>
NAME_busch == <<"B","u","s","c","h"," ","S","t","u","d","e","n","t"," ","C","e","n","t","e","r"," ","R","u","t","g","e","r","s">>
NAME_college_ave == <<"C","o","l","l","e","g","e"," ","A","v","e"," ","S","t","u","d","e","n","t"," ","C","e","n","t","e","r"," ","R","u","t","g","e","r","s">>
NAME_livingston == <<"L","i","v","i","n","g","s","t","o","n"," ","S","t","u","d","e","n","t"," ","C","e","n","t","e","r"," ","R","u","t","g","e","r","s">>
NAME_cook == <<"C","o","o","k"," ","S","t","u","d","e","n","t"," ","C","e","n","t","e","r"," ","R","u","t","g","e","r","s">>
NAME_douglass == <<"D","o","u","g","l","a","s","s"," ","S","t","u","d","e","n","t"," ","C","e","n","t","e","r"," ","R","u","t","g","e","r","s">>

\* the keyword lists of get_busyness_at_time and find_peak_time
GBAT_RAW_KEYWORDS ==
    { <<"d","i","n","i","n","g">>,
      <<"c","a","f","e">>,
      <<"s","t","a","r","b","u","c","k","s">>,
      <<"r","e","s","t","a","u","r","a","n","t">>,
      <<"f","o","o","d">>,
      <<"m","a","r","k","e","t">> }
FPT_RAW_KEYWORDS ==
    { <<"d","i","n","i","n","g">>,
      <<"c","a","f","e">>,
      <<"s","t","a","r","b","u","c","k","s">>,
      <<"r","e","s","t","a","u","r","a","n","t">>,
      <<"f","o","o","d">>,
      <<"m","a","r","k","e","t">>,
      <<"f","a","s","t"," ","f","o","o","d">> }
peak_keywords ==
    { <<"b","u","s","i","e","s","t">>,
      <<"m","o","s","t"," ","c","r","o","w","d","e","d">>,
      <<"p","e","a","k"," ","t","i","m","e">>,
      <<"p","e","a","k"," ","h","o","u","r">>,
      <<"m","o","s","t"," ","b","u","s","y">> }
time_keywords ==
    { <<"a","t">>,
      <<"a","r","o","u","n","d">>,
      <<"p","m">>,
      <<"a","m">>,
      <<"o","'","c","l","o","c","k">> }

KW_busiest == <<"b","u","s","i","e","s","t">>
KW_most_crowded == <<"m","o","s","t"," ","c","r","o","w","d","e","d">>
KW_peak_time == <<"p","e","a","k"," ","t","i","m","e">>
KW_peak_hour == <<"p","e","a","k"," ","h","o","u","r">>
KW_most_busy == <<"m","o","s","t"," ","b","u","s","y">>
KW_at == <<"a","t">>
KW_around == <<"a","r","o","u","n","d">>
KW_oclock == <<"o","'","c","l","o","c","k">>

\* the query texts of the model
Q_livi_2pm == <<"H","o","w"," ","b","u","s","y"," ","i","s"," ","L","i","v","i","n","g","s","t","o","n"," ","a","t"," ","2","p","m"," ","t","o","d","a","y">>
Q_gym_now == <<"I","s"," ","t","h","e"," ","g","y","m"," ","c","r","o","w","d","e","d"," ","n","o","w">>
Q_busch_peak == <<"W","h","a","t"," ","t","i","m","e"," ","i","s"," ","B","u","s","c","h"," ","b","u","s","i","e","s","t">>
Q_cafe_tomorrow == <<"c","a","f","e"," ","1","1",":","4","0"," ","t","o","m","o","r","r","o","w">>
\* texts whose time is 30 minutes from Monday 13:50:00
Q_busch_1320 == <<"b","u","s","c","h"," ","a","t"," ","1","3",":","2","0">>
Q_busch_1420 == <<"b","u","s","c","h"," ","a","t"," ","1","4",":","2","0">>
BoundaryTexts == { Q_busch_1320, Q_busch_1420 }
Texts == { Q_livi_2pm, Q_gym_now, Q_busch_peak, Q_cafe_tomorrow }
\* the texts get_busyness_at_time is called with directly, and the texts
\* query_busyness is called with: one of each query type
GbatTexts == { Q_livi_2pm, Q_cafe_tomorrow } \cup BoundaryTexts
QueryTexts == { Q_livi_2pm, Q_gym_now, Q_busch_peak }

\* the arguments find_peak_time is called with directly, and the text compact_answer
\* is called with: a campus and a word that makes get_busyness_at_time keep the text
PeakCalls ==
    { [location_query |-> Q_busch_peak, day_offset |-> 0],
      [location_query |-> Q_cafe_tomorrow, day_offset |-> 1] }
Q_busch_cafe_7pm == <<"b","u","s","c","h"," ","c","a","f","e"," ","a","t"," ","7","p","m">>
CompactTexts == { Q_busch_cafe_7pm }

\* the place names GET /busyness is called with
ApiTexts == { NAME_livingston }

\* the texts extract_busyness_query_type is called with: the three of the test
\* script, and texts that mix peak keywords, time keywords and 'now'
Q_test_livi_2pm == <<"H","o","w"," ","b","u","s","y"," ","i","s"," ","L","i","v","i","n","g","s","t","o","n"," ","a","t"," ","2","p","m">>
Q_gym == <<"g","y","m">>
Q_busiest_now == <<"b","u","s","i","e","s","t"," ","n","o","w">>
Q_gym_2pm_now == <<"g","y","m"," ","a","t"," ","2","p","m"," ","n","o","w">>
Q_most_busy_upper == <<"M","O","S","T"," ","B","U","S","Y"," ","h","o","u","r">>
Q_3_oclock == <<"3"," ","o","'","c","l","o","c","k">>
Q_snow_7am == <<"s","n","o","w"," ","7","a","m">>
Q_around_peak_hour == <<"a","r","o","u","n","d"," ","p","e","a","k"," ","h","o","u","r">>
QueryTypeTexts ==
    Texts \cup { Q_test_livi_2pm, Q_gym, Q_busiest_now, Q_gym_2pm_now, Q_most_busy_upper,
                  Q_3_oclock, Q_snow_7am, Q_around_peak_hour, <<>> }

\* the texts _parse_when is called with: a place, an hour, minutes, am/pm, a day word
TimePrefixes == { <<>>, <<"a","t"," ">>, <<"B","u","s","c","h"," ","a","r","o","u","n","d"," ">> }
HourTexts ==
    { <<"0">>, <<"1">>, <<"2">>, <<"3">>, <<"4">>, <<"5">>, <<"6">>, <<"7">>, <<"8">>,
      <<"9">>, <<"1","0">>, <<"1","1">>, <<"1","2">>, <<"1","3">>, <<"1","9">>,
      <<"2","3">>, <<"2","4">>, <<"9","9">>, <<"1","2","3">> }
MinuteTexts ==
    { <<>>, <<":","0","0">>, <<":","0","5">>, <<":","5","9">>, <<":","6","0">>,
      <<":","9","9">>, <<":","5">> }
MeridiemTexts == { <<>>, <<"a","m">>, <<"p","m">>, <<" ","p","m">>, <<"P","M">> }
DayTexts ==
    { <<>>, <<" ","t","o","d","a","y">>, <<" ","t","o","m","o","r","r","o","w">>,
      <<" ","n","o","w">> }
TimeTexts ==
    { p \o h \o m \o a \o d : p \in TimePrefixes, h \in HourTexts, m \in MinuteTexts,
                              a \in MeridiemTexts, d \in DayTexts }
      \cup Texts \cup { <<>> }

\* texts with 'now' inside a word, and texts whose first digits are not the hour
\* of their time expression
Q_snow_7pm_tomorrow == <<"s","n","o","w"," ","7","p","m"," ","t","o","m","o","r","r","o","w">>
Q_know_1905 == <<"I"," ","k","n","o","w"," ","1","9",":","0","5">>
Q_NOW_7pm == <<"N","O","W"," ","7","p","m">>
Q_hall_2_at_7pm == <<"H","a","l","l"," ","2"," ","a","t"," ","7","p","m"," ","t","o","m","o","r","r","o","w">>
Q_room_101_at_7pm == <<"r","o","o","m"," ","1","0","1"," ","a","t"," ","7","p","m">>
Q_7_or_8pm == <<"7"," ","o","r"," ","8","p","m">>
Q_open_9_tomorrow == <<"o","p","e","n"," ","9"," ","t","o","m","o","r","r","o","w">>
\* texts with white space other than the space before the meridiem
Q_7_tab_pm == <<"7","\t","p","m">>
Q_at_7_lf_pm == <<"a","t","\n","7"," ","\n","p","m">>
\* a vertical tab, a no-break space and a unit separator before the meridiem, and
\* upper case letters outside A-Z
Q_7_vt_pm == <<"7","","p","m">>
Q_7_nbsp_PM == <<"7"," ","P","M">>
Q_at_7_us_pm == <<"a","t","","7","","","p","m">>
Q_CAFE_7PM == <<"C","A","F","É"," ","Å","T"," ","7","P","M">>
OddTimeTexts ==
    { Q_snow_7pm_tomorrow, Q_know_1905, Q_NOW_7pm, Q_hall_2_at_7pm, Q_room_101_at_7pm,
      Q_7_or_8pm, Q_open_9_tomorrow, Q_7_tab_pm, Q_at_7_lf_pm, Q_7_vt_pm, Q_7_nbsp_PM,
      Q_at_7_us_pm, Q_CAFE_7PM }

UPPER == <<"A","B","C","D","E","F","G","H","I","J","K","L","M","N","O","P","Q","R","S","T","U","V","W","X","Y","Z">>
LOWER == <<"a","b","c","d","e","f","g","h","i","j","k","l","m","n","o","p","q","r","s","t","u","v","w","x","y","z">>

\* the cased letters of U+0080-U+00FF, the range a character of a text is drawn
\* from: U+00C0-U+00DE without the multiplication sign, and their lower case
UPPER_LATIN1 == <<"À","Á","Â","Ã","Ä","Å","Æ","Ç","È","É","Ê","Ë","Ì","Í","Î","Ï","Ð","Ñ","Ò","Ó","Ô","Õ","Ö","Ø","Ù","Ú","Û","Ü","Ý","Þ">>
LOWER_LATIN1 == <<"à","á","â","ã","ä","å","æ","ç","è","é","ê","ë","ì","í","î","ï","ð","ñ","ò","ó","ô","õ","ö","ø","ù","ú","û","ü","ý","þ">>

\* str.lower(), one character: every upper case letter becomes its lower case
\* letter, any other character stays
LowerChar(c) ==
    IF \E i \in 1..Len(UPPER) : UPPER[i] = c
    THEN LOWER[CHOOSE i \in 1..Len(UPPER) : UPPER[i] = c]
    ELSE IF \E i \in 1..Len(UPPER_LATIN1) : UPPER_LATIN1[i] = c
    THEN LOWER_LATIN1[CHOOSE i \in 1..Len(UPPER_LATIN1) : UPPER_LATIN1[i] = c]
    ELSE c

\* str.lower()
lower(s) == [i \in 1..Len(s) |-> LowerChar(s[i])]

\* kw occurs in s at position i
MatchAt(s, i, kw) ==
    /\ i >= 1
    /\ i + Len(kw) - 1 <= Len(s)
    /\ \A j \in 1..Len(kw) : s[i + j - 1] = kw[j]

\* Python's `kw in s`
Contains(s, kw) == \E i \in 1..Len(s) : MatchAt(s, i, kw)

\* any(kw in s for kw in kws)
ContainsAny(s, kws) == \E kw \in kws : Contains(s, kw)

Digits == <<"0","1","2","3","4","5","6","7","8","9">>
IsDigit(c) == \E i \in 1..10 : Digits[i] = c
DigitVal(c) == (CHOOSE i \in 1..10 : Digits[i] = c) - 1
IsDigitAt(s, i) == i >= 1 /\ i <= Len(s) /\ IsDigit(s[i])
\* the characters of U+0000-U+00FF the regex's \s matches on a str: space, tab,
\* line feed, carriage return, form feed, vertical tab (U+000B), the separators
\* U+001C-U+001F, next line (U+0085) and the no-break space (U+00A0)
WhiteSpace ==
    { " ", "\t", "\n", "\r", "\f", "", "", "", "", "", "", " " }
IsSpaceAt(s, i) == i >= 1 /\ i <= Len(s) /\ s[i] \in WhiteSpace

Min(a, b) == IF a <= b THEN a ELSE b
Max(a, b) == IF a >= b THEN a ELSE b
Abs(a) == IF a >= 0 THEN a ELSE -a

(* ------------------------------- time --------------------------------- *)
SecPerMin == 60
SecPerHour == 3600
SecPerDay == 86400

weekday(t) == (t \div SecPerDay) % 7
hour_of(t) == (t \div SecPerHour) % 24
minute_of(t) == (t \div SecPerMin) % 60

\* datetime.replace(hour=h, minute=m, second=0, microsecond=0)
replace_hm(t, h, m) == (t \div SecPerDay) * SecPerDay + h * SecPerHour + m * SecPerMin

\* timedelta(days=d), timedelta(hours=h)
days(d) == d * SecPerDay
hours(h) == h * SecPerHour

\* Monday 13:50:00 and Monday 23:59:59, one second before the hour and the day
\* change: the clock when a call starts
\* (in the second week of the time axis, so that no datetime of a run is negative)
Mon_13_50 == days(7) + 13 * SecPerHour + 50 * SecPerMin
Mon_23_59 == days(8) - 1
NowChoices == { Mon_13_50, Mon_23_59 }

\* the clock goes on while a call waits for an upstream answer: by Tick seconds,
\* at most MaxTicks times during one call
Tick == 1
MaxTicks == 1

\* the datetimes _is_now is called with, in seconds from datetime.now()
IsNowOffsets == { 0 - 1801, 0 - 1800, 0 - 60, 0, 1800, 1801 }

\* mutant of _is_now: the boundary is left out
_is_now_strict(when_local, now) == Abs(when_local - now) < 30 * 60

\* _is_now: within 30 minutes counts as "now"
_is_now(when_local, now) == Abs(when_local - now) <= 30 * 60

\* first position after i that is not white space (the regex's \s*)
RECURSIVE SkipSpaces(_, _)
SkipSpaces(s, i) == IF IsSpaceAt(s, i) THEN SkipSpaces(s, i + 1) ELSE i

\* the groups of re.search(r"(?:at|around)?\s*(\d{1,2})(?::(\d{2}))?\s*(am|pm)?", s)
\* hh = -1 when there is no match; ap is "" when group 3 is absent
TimeMatch(s) ==
    IF ~ \E i \in 1..Len(s) : IsDigit(s[i])
    THEN [hh |-> None, mm |-> 0, ap |-> ""]
    ELSE
      LET f  == CHOOSE i \in 1..Len(s) :
                    IsDigit(s[i]) /\ \A j \in 1..(i - 1) : ~ IsDigit(s[j])
          two == IsDigitAt(s, f + 1)
          hh == IF two THEN 10 * DigitVal(s[f]) + DigitVal(s[f + 1])
                       ELSE DigitVal(s[f])
          a  == IF two THEN f + 2 ELSE f + 1
          col == /\ a <= Len(s) /\ s[a] = ":"
                 /\ IsDigitAt(s, a + 1) /\ IsDigitAt(s, a + 2)
          mm == IF col THEN 10 * DigitVal(s[a + 1]) + DigitVal(s[a + 2]) ELSE 0
          b  == SkipSpaces(s, IF col THEN a + 3 ELSE a)
          ap == IF MatchAt(s, b, KW_am) THEN "am"
                ELSE IF MatchAt(s, b, KW_pm) THEN "pm" ELSE ""
      IN [hh |-> hh, mm |-> mm, ap |-> ap]

\* mutant of to_24h: 12 is added to every pm hour
to_24h_all(hh, ap) == IF ap = "pm" THEN hh + 12 ELSE hh

\* `if ap == "pm" and hh < 12: hh += 12` and `if ap == "am" and hh == 12: hh = 0`
to_24h(hh, ap) ==
    IF ap = "pm" /\ hh < 12 THEN hh + 12
    ELSE IF ap = "am" /\ hh = 12 THEN 0 ELSE hh

\* mutant of clamp: the value is passed on as it is
clamp_not(v, lo, hi) == v

\* min(max(v, lo), hi)
clamp(v, lo, hi) == Min(Max(v, lo), hi)

\* mutant of has_now: 'now' as a word of its own
has_now_word(s) ==
    \E i \in 1..Len(s) :
       /\ MatchAt(s, i, KW_now)
       /\ i = 1 \/ s[i - 1] = " "
       /\ i + 3 > Len(s) \/ s[i + 3] = " "

\* `if "now" in s`
has_now(s) == Contains(s, KW_now)

\* datetime.replace raises ValueError unless hour is in 0..23 and minute in 0..59
replace_ok(h, m) == h \in 0..23 /\ m \in 0..59

\* the outcome of _parse_when(q), with datetime.now() = now: the datetime it
\* returns, or the exception that leaves it
_parse_when_outcome(q, now) ==
    LET s == lower(q)
        day_offset == IF Contains(s, KW_tomorrow) THEN 1 ELSE 0
        m == TimeMatch(s)
        hh == clamp(to_24h(m.hh, m.ap), 0, 23)
        mm == clamp(m.mm, 0, 59)
    IN IF has_now(s) THEN [raises |-> FALSE, value |-> now]
       ELSE IF m.hh = None THEN [raises |-> FALSE, value |-> now]
       ELSE IF ~ replace_ok(hh, mm) THEN [raises |-> TRUE, value |-> None]
       ELSE [raises |-> FALSE, value |-> replace_hm(now, hh, mm) + days(day_offset)]

\* _parse_when(q), with datetime.now() = now
_parse_when(q, now) == _parse_when_outcome(q, now).value

\* _normalize_place_query(q)
_normalize_place_query(q) ==
    LET s == lower(q)
    IN IF Contains(s, KW_busch) THEN NAME_busch
       ELSE IF Contains(s, KW_college_ave) \/ Contains(s, KW_college_avenue)
               \/ Contains(s, KW_cac) THEN NAME_college_ave
       ELSE IF Contains(s, KW_livingston) \/ Contains(s, KW_livi) THEN NAME_livingston
       ELSE IF Contains(s, KW_cook) THEN NAME_cook
       ELSE IF Contains(s, KW_douglass) \/ Contains(s, KW_doug) THEN NAME_douglass
       ELSE q

\* mutant of extract_busyness_query_type: the time keywords are tried first
extract_busyness_query_type_timefirst(query) ==
    LET query_lower == lower(query)
    IN IF ContainsAny(query_lower, time_keywords) /\ ~ Contains(query_lower, KW_now)
       THEN "specific_time"
       ELSE IF ContainsAny(query_lower, peak_keywords) THEN "peak_time"
       ELSE "current"

\* extract_busyness_query_type(query)
extract_busyness_query_type(query) ==
    LET query_lower == lower(query)
    IN IF ContainsAny(query_lower, peak_keywords) THEN "peak_time"
       ELSE IF ContainsAny(query_lower, time_keywords) /\ ~ Contains(query_lower, KW_now)
            THEN "specific_time"
       ELSE "current"

(* ----------------------- popularity provider -------------------------- *)
weekday_names ==
    <<"Monday", "Tuesday", "Wednesday", "Thursday", "Friday", "Saturday", "Sunday">>

\* the readings of the model's payloads: None is an entry int() rejects
HistVals == { None, 0, 42, 100 }
CurrVals == { None, 80 }

\* a day's 24 entries, repeating the pattern pat
Row(pat) == [h \in 1..24 |-> pat[((h - 1) % Len(pat)) + 1]]
Rows == { Row(pat) : pat \in [1..PatLen -> HistVals] }

\* info["populartimes"]: all seven days, Monday only, or no list (<<>>)
WeekGrid(row) == [d \in 1..7 |-> [name |-> weekday_names[d], data |-> row]]
MondayGrid(row) == << [name |-> "Monday", data |-> row] >>
\* a day with one entry, at 22:00, and a day whose entries rise from 7:00 to 22:00
LateRow == [h \in 1..24 |-> IF h - 1 = 22 THEN 90 ELSE None]
StepRow == [h \in 1..24 |-> IF h - 1 \in 7..22 THEN 4 * (h - 1) ELSE None]
Grids ==
    { WeekGrid(r) : r \in Rows \cup { LateRow, StepRow } }
      \cup { MondayGrid(r) : r \in Rows } \cup { <<>> }

\* the payloads populartimes.get_id returns for the resolved place
Payloads == [current_popularity : CurrVals, populartimes : Grids]

\* the payloads populartimes.get_id returns for the place of find_peak_time, and the
\* payload its answer can change to between two of the 16 calls, at most
\* MaxChanges times during one find_peak_time
PeakGrids ==
    { WeekGrid(r) : r \in Rows \cup { LateRow, StepRow } }
      \cup { MondayGrid([h \in 1..24 |-> v]) : v \in { 42, 100 } } \cup { <<>> }
PeakPayloads == { i \in Payloads : i.current_popularity = 80 /\ i.populartimes \in PeakGrids }
PeakChangePayloads ==
    { [current_popularity |-> None, populartimes |-> WeekGrid([h \in 1..24 |-> 100])] }
MaxChanges == 1

\* the payloads populartimes.get_id returns for a place of a nearby search:
\* the same reading at every hour of the week, or no grid
CandRows == { [h \in 1..24 |-> v] : v \in { 42, 100 } }
CandPayloads ==
    [current_popularity : CurrVals, populartimes : { WeekGrid(r) : r \in CandRows } \cup { <<>> }]

\* isinstance(v, int)
IsInt(v) == v # None

\* _hist_at(info, when_local)
_hist_at(info, when_local) ==
    LET pts == info.populartimes
        target_day == weekday_names[weekday(when_local) + 1]
        target_hour == hour_of(when_local)
        hit(i) == pts[i].name = target_day /\ Len(pts[i].data) = 24
    IN IF \E i \in 1..Len(pts) : hit(i)
       THEN LET d == pts[CHOOSE i \in 1..Len(pts) : hit(i) /\ \A j \in 1..(i - 1) : ~ hit(j)]
            IN d.data[target_hour + 1]
       ELSE None

\* Python's round(n / d) for n >= 0, d > 0: ties go to the even integer
RoundHalfEven(n, d) ==
    LET q == n \div d
        r == n % d
    IN IF 2 * r < d THEN q
       ELSE IF 2 * r > d THEN q + 1
       ELSE IF q % 2 = 0 THEN q ELSE q + 1

RECURSIVE SumSeq(_)
SumSeq(s) == IF s = <<>> THEN 0 ELSE Head(s) + SumSeq(Tail(s))

\* mutant of _hist_around: the sum of the window is not divided by its length
_hist_around_sum(info, when_local, window_hours) ==
    LET base == (when_local \div SecPerHour) * SecPerHour
        n == 2 * window_hours + 1
        at(k) == _hist_at(info, base + hours(k - 1 - window_hours))
        vals == SelectSeq([k \in 1..n |-> at(k)], IsInt)
    IN IF vals = <<>> THEN None ELSE SumSeq(vals)

\* _hist_around(info, when_local, window_hours)
_hist_around(info, when_local, window_hours) ==
    LET base == (when_local \div SecPerHour) * SecPerHour
        n == 2 * window_hours + 1
        at(k) == _hist_at(info, base + hours(k - 1 - window_hours))
        vals == SelectSeq([k \in 1..n |-> at(k)], IsInt)
    IN IF vals = <<>> THEN None
       ELSE RoundHalfEven(SumSeq(vals), Len(vals))

\* mutant of _get_popularity_for_id_at: the live reading is used whatever allow_live
_get_popularity_for_id_at_live(info, when_local, allow_live) ==
    LET curr == info.current_popularity
        hist == _hist_around(info, when_local, 1)
    IN IF IsInt(curr) THEN [val |-> curr, src |-> "live"]
       ELSE IF IsInt(hist) THEN [val |-> hist, src |-> "historical"]
       ELSE [val |-> None, src |-> "unavailable"]

\* _get_popularity_for_id_at, given the payload info that populartimes.get_id returned
_get_popularity_for_id_at(info, when_local, allow_live) ==
    LET curr == info.current_popularity
        hist == _hist_around(info, when_local, 1)
    IN IF allow_live /\ IsInt(curr) THEN [val |-> curr, src |-> "live"]
       ELSE IF IsInt(hist) THEN [val |-> hist, src |-> "historical"]
       ELSE [val |-> None, src |-> "unavailable"]

(* --------------------------- area estimate ---------------------------- *)
\* _haversine_m between two locations on the meridian of the resolved place
_haversine_m(a, b) == Abs(a - b)

\* 10^6 * exp(-(d*d) / (2 * 150^2)), rounded, for the distances of the model;
\* at 6000 m exp(-800) underflows to 0.0
GaussWeight(d) ==
    CASE d = 0 -> 1000000
      [] d = 150 -> 606531
      [] d = 200 -> 411112
      [] d = 300 -> 135335
      [] d = 6000 -> 0

RECURSIVE WeightedNum(_, _)
WeightedNum(center, samples) ==
    IF samples = <<>> THEN 0
    ELSE GaussWeight(_haversine_m(center, Head(samples).location)) * Head(samples).val
           + WeightedNum(center, Tail(samples))

RECURSIVE WeightedDen(_, _)
WeightedDen(center, samples) ==
    IF samples = <<>> THEN 0
    ELSE GaussWeight(_haversine_m(center, Head(samples).location))
           + WeightedDen(center, Tail(samples))

\* every weight of the sum is a float without rounding error: exp(-0.0) is 1.0, and
\* an underflow is 0.0
ExactWeights(center, samples) ==
    \A i \in 1..Len(samples) :
       GaussWeight(_haversine_m(center, samples[i].location)) \in { 0, 1000000 }

\* mutant of area_round: the weighted sum is not divided by the sum of the weights
area_round_num(num, den, exact) == { RoundHalfEven(num, 1000000) }

\* int(round(num / den)), num and den floats: the integers the call can return.
\* When num / den lies halfway between two integers and the weights carry a
\* rounding error, the float quotient falls on either side of the half and the
\* result is either neighbour; round() of an exact half goes to the even one
area_round(num, den, exact) ==
    IF (2 * num) % (2 * den) = den /\ ~ exact
    THEN { num \div den, (num \div den) + 1 }
    ELSE { RoundHalfEven(num, den) }

\* mutant of _weighted_area_estimate: without `if den <= 0: return None`
_weighted_area_estimate_zero(center, samples) ==
    IF samples = <<>> THEN { None }
    ELSE LET num == WeightedNum(center, samples)
             den == WeightedDen(center, samples)
         IN IF den <= 0 THEN { 0 }
            ELSE area_round(num, den, ExactWeights(center, samples))

\* _weighted_area_estimate(center, samples), samples = <<[location, val], ...>>:
\* the values the call can return
_weighted_area_estimate(center, samples) ==
    IF samples = <<>> THEN { None }
    ELSE LET num == WeightedNum(center, samples)
             den == WeightedDen(center, samples)
         IN IF den <= 0 THEN { None }
            ELSE area_round(num, den, ExactWeights(center, samples))

\* the sample lists _weighted_area_estimate is called with directly
SampleLocations == { 0, 150, 200, 0 - 200, 6000 }
SampleVals == { 0, 20, 60, 75 }
Samples == [location : SampleLocations, val : SampleVals]
SampleLists == UNION { [1..n -> Samples] : n \in 0..MaxCand }

(* ------------------------- upstream responses ------------------------- *)
NAME_top == <<"L","S","C">>

\* what _text_search_first returns: a place with displayName and location,
\* a place with neither, or None (found = FALSE)
TopFull == [found |-> TRUE, id |-> "p1", displayName |-> NAME_top, location |-> 0]
TopBare == [found |-> TRUE, id |-> "p2", displayName |-> <<>>, location |-> None]
TopNone == [found |-> FALSE, id |-> "", displayName |-> <<>>, location |-> None]
Tops == { TopFull, TopBare }

\* the places a nearby search returns: id "" is a place without id,
\* location None a place whose latitude/longitude are not floats
Cands ==
    { [id |-> "",    name |-> "",       location |-> 0],
      [id |-> "sv1", name |-> "Cafe",   location |-> 0],
      [id |-> "sv2", name |-> "Gym",    location |-> 200],
      [id |-> "sv3", name |-> "Market", location |-> None] }
NearbyLists == UNION { [1..n -> Cands] : n \in 0..MaxCand }

\* outcome of one upstream call: it raises, or it returns value
Raises(e) == [raises |-> TRUE, value |-> e]
Returns(v) == [raises |-> FALSE, value |-> v]
NoInfo == [current_popularity |-> None, populartimes |-> <<>>]
TextSearchOutcomes ==
    { [raises |-> TRUE, value |-> TopNone], Returns(TopNone) } \cup { Returns(t) : t \in Tops }
NearbyOutcomes == { [raises |-> TRUE, value |-> <<>>] } \cup { Returns(l) : l \in NearbyLists }
PopularityOutcomes == { [raises |-> TRUE, value |-> NoInfo] } \cup { Returns(i) : i \in Payloads }
PeakPopularityOutcomes ==
    { [raises |-> TRUE, value |-> NoInfo] }
      \cup { Returns(i) : i \in PeakPayloads \cup PeakChangePayloads }
CandPopularityOutcomes ==
    { [raises |-> TRUE, value |-> NoInfo] } \cup { Returns(i) : i \in CandPayloads }

(* ------------------------------- state -------------------------------- *)
VARIABLES
    BUSYNESS_AVAILABLE,  \* chat_pipeline_class: gmaps.busyness_helper could be imported
    pc,                  \* the upstream call the running entry point waits for
    entry,               \* the entry point that was invoked: one of the chat caller's,
                         \* or the handler of GET /busyness
    callee,              \* the helper that runs: get_busyness_at_time, find_peak_time
                         \* or resolve_and_measure
    query,               \* the text the entry point was called with
    now,                 \* datetime.now() when the call starts: the reading of
                         \* _parse_when
    clock,               \* the clock: what datetime.now() returns next
    when,                \* _parse_when(query)
    target,              \* the place query sent to the text search
    day_offset,          \* find_peak_time's day_offset
    top,                 \* the resolved place
    allow_live,          \* resolve_and_measure_at: _is_now(when_local)
    places,              \* the list the running loop iterates: sub_places, then area_places
    idx,                 \* position of the running for loop in its list
    best,                \* resolve_and_measure_at, tier B
    samples,             \* resolve_and_measure_at, tier C
    info,                \* find_peak_time: the payload populartimes.get_id returned last
    base_date,           \* find_peak_time: datetime.now(), read once the text search
                         \* has returned, plus day_offset days
    hour,                \* find_peak_time: the loop variable
    hourly_data,         \* find_peak_time
    val,                 \* the value of `val, src, raw = _get_popularity_for_id_at(...)`
    src,                 \* the source of `val, src, raw = _get_popularity_for_id_at(...)`
    calls,               \* number of upstream calls issued for this query, by call site
    failed,              \* the call sites whose upstream call raised
    sub_seen,            \* a sub-venue call of this query returned a value
    last_call,           \* arguments and return of the last _get_popularity_for_id_at
    rm_state,            \* resolve_and_measure_at: none, running, returned, raised
    rm_result,           \* what resolve_and_measure_at returned
    raised,              \* an exception left the entry point
    response,            \* what the entry point returned
    sub_obs,             \* tier B: the readings of the sub-venues that had a value
    fn,                  \* a direct call of a helper function: name, args, outcome
    nearby_body,         \* _nearby_places: the body of the last request
    provider             \* the upstream providers during this query: whether they
                         \* answer a repeated request the same way, their answers,
                         \* and how often the payload of find_peak_time's place changed

vars == << BUSYNESS_AVAILABLE, pc, entry, callee, query, now, clock, when, target, day_offset,
           top, allow_live, places, idx, best, samples, info, base_date, hour,
           hourly_data, val, src, calls, failed, sub_seen, last_call, rm_state, rm_result,
           raised, response, sub_obs, fn, nearby_body, provider >>

NoCalls == [text |-> 0, nearby_sub |-> 0, nearby_area |-> 0,
            pop_place |-> 0, pop_sub |-> 0, pop_area |-> 0, pop_peak |-> 0,
            rm_pop_place |-> 0, rm_try_sub |-> 0, rm_try_area |-> 0, rm_nearby_sub |-> 0,
            rm_pop_sub |-> 0, rm_nearby_area |-> 0, rm_pop_area |-> 0]
Count(site) == [calls EXCEPT ![site] = @ + 1]

NoCall == [info |-> NoInfo, when |-> None, allow_live |-> FALSE, val |-> None, src |-> "",
           slept |-> 0]

NoBest == [val |-> None, src |-> "", rank |-> <<0, 0>>, id |-> "", name |-> "", location |-> None]

\* resolve_and_measure_at returned None
NoResult == [is_none |-> TRUE, place_id |-> "", name |-> <<>>, location |-> None,
             popularity |-> None, source |-> "", method |-> "",
             subvenue |-> "", samples_used |-> None, when |-> None]
NoResponse == [status |-> ""]
NoFn == [name |-> "", args |-> <<>>, out |-> Returns(None)]
NoBody == [maxResultCount |-> 0, includedTypes |-> <<>>, radius |-> 0]
NoProvider == [deterministic |-> FALSE, nearby |-> {}, readings |-> {}, changes |-> 0]

(* ------------------------------ results ------------------------------- *)
\* (top.get("displayName") or {}).get("text") or place_query
NameOf(t, place_query) == IF t.displayName # <<>> THEN t.displayName ELSE place_query

\* the dict resolve_and_measure_at returns; keys a branch omits are "" or None
Result(popularity, source, method, subvenue, samples_used) ==
    [is_none |-> FALSE, place_id |-> top.id, name |-> NameOf(top, target),
     location |-> top.location, popularity |-> popularity, source |-> source,
     method |-> method, subvenue |-> subvenue, samples_used |-> samples_used,
     when |-> when]

TwoDigits(n) == << Digits[(n \div 10) + 1], Digits[(n % 10) + 1] >>

\* strftime("%I:%M %p")
strftime_IMp(t) ==
    TwoDigits(((hour_of(t) + 11) % 12) + 1) \o <<":">> \o TwoDigits(minute_of(t))
      \o <<" ">> \o (IF hour_of(t) < 12 THEN <<"A", "M">> ELSE <<"P", "M">>)

\* str.lstrip("0")
RECURSIVE lstrip0(_)
lstrip0(s) == IF s # <<>> /\ Head(s) = "0" THEN lstrip0(Tail(s)) ELSE s

\* get_busyness_at_time: the busyness level of a value
Level(v) ==
    IF v < 30 THEN "light"
    ELSE IF v < 60 THEN "medium"
    ELSE IF v < 85 THEN "high"
    ELSE "very high"

\* mutant of get_busyness_at_time_result: without `if not result`, result.get(...)
\* fails on None and the except clause answers
get_busyness_at_time_result_nocheck(result) ==
    IF result.is_none
    THEN [location |-> <<>>, time |-> None, popularity |-> None,
          source |-> "unavailable", status |-> "error",
          message |-> [fmt |-> "Error: {e}", arg |-> "AttributeError"],
          method |-> "", raw_result |-> NoResult]
    ELSE [location |-> result.name, time |-> when, popularity |-> result.popularity,
          source |-> result.source,
          status |-> IF result.popularity = None THEN "unavailable" ELSE "success",
          message |-> [fmt |-> "Busyness data unavailable", arg |-> <<>>],
          method |-> result.method, raw_result |-> result]

\* get_busyness_at_time: the dict built from the result of resolve_and_measure_at;
\* time_desc compares when with datetime.now() as it is once the cascade is over
get_busyness_at_time_result(result) ==
    IF result.is_none
    THEN [location |-> target, time |-> when, popularity |-> None,
          source |-> "unavailable", status |-> "error",
          message |-> [fmt |-> "Could not find location: {target}", arg |-> target],
          method |-> "", raw_result |-> NoResult]
    ELSE IF result.popularity = None
    THEN [location |-> result.name, time |-> when, popularity |-> None,
          source |-> result.source, status |-> "unavailable",
          message |-> [fmt |-> "Busyness data unavailable", arg |-> <<>>],
          method |-> result.method, raw_result |-> result]
    ELSE [location |-> result.name, time |-> when, popularity |-> result.popularity,
          source |-> result.source, status |-> "success",
          message |-> [fmt |-> "{name} is {val}% busy ({level}) at {time_desc}",
                       arg |-> << result.name, result.popularity, Level(result.popularity),
                                  IF Abs(when - clock') < 1800 THEN KW_now
                                  ELSE strftime_IMp(when) >>],
          method |-> result.method, raw_result |-> result]

\* compact_answer: the level of a value
CompactLevel(v) ==
    IF v < 30 THEN "light"
    ELSE IF v < 60 THEN "medium"
    ELSE IF v < 85 THEN "high"
    ELSE "red"

\* compact_answer: the string built from the result of resolve_and_measure_at
\* (`val = r and r.get("popularity")`); the emoji of the level is left out
compact_answer_result(result) ==
    LET v == IF result.is_none THEN None ELSE result.popularity
    IN IF v = None
       THEN [status |-> "", message |-> [fmt |-> "unavailable unknown", arg |-> <<>>]]
       ELSE [status |-> "",
             message |-> [fmt |-> "{val}% {level}", arg |-> << v, CompactLevel(v) >>]]

\* mutant of get_busyness_at_time_except: no except clause, the exception goes on
get_busyness_at_time_noexcept(e) == Raises(e)

\* get_busyness_at_time: except Exception as e
get_busyness_at_time_except(e) ==
    Returns([location |-> <<>>, time |-> None, popularity |-> None,
             source |-> "unavailable", status |-> "error",
             message |-> [fmt |-> "Error: {e}", arg |-> e],
             method |-> "", raw_result |-> NoResult])

\* the keys of the dicts find_peak_time returns: the success dict has all_hours and
\* peak_window and no average_busy_time, the other three the reverse; the fields of
\* the model's record that are not among the keys are absent from the dict
FPT_KEYS_NO_DATA == { "location", "peak_hours", "average_busy_time", "status", "message" }
FPT_KEYS_SUCCESS ==
    { "location", "peak_hours", "all_hours", "peak_window", "status", "message" }

\* find_peak_time: except Exception as e
find_peak_time_except(e) ==
    Returns([location |-> <<>>, peak_hours |-> <<>>, all_hours |-> <<>>,
             peak_window |-> <<>>, average_busy_time |-> None, status |-> "error",
             message |-> [fmt |-> "Error: {e}", arg |-> e],
             keys |-> FPT_KEYS_NO_DATA])

\* query_busyness: except Exception as e
query_busyness_except(e) ==
    Returns([status |-> "error", data |-> NoResponse, query_type |-> "",
             message |-> [fmt |-> "Error checking busyness: {e}", arg |-> e]])

\* query_busyness: the dict built from the helper's outcome
query_busyness_result(out) ==
    IF out.raises THEN query_busyness_except(out.value)
    ELSE Returns([status |-> out.value.status, data |-> out.value,
                  query_type |-> extract_busyness_query_type(query),
                  message |-> [fmt |-> "", arg |-> <<>>]])

\* the outcome of the helper is handed to the entry point
Deliver(out) ==
    LET o == IF entry = "query_busyness" THEN query_busyness_result(out) ELSE out
    IN /\ pc' = "done"
       /\ raised' = o.raises
       /\ response' = IF o.raises THEN NoResponse ELSE o.value

\* resolve_and_measure_at returns result to get_busyness_at_time or to compact_answer
RmReturn(result) ==
    /\ rm_state' = "returned"
    /\ rm_result' = result
    /\ IF callee = "compact_answer"
       THEN Deliver(Returns(compact_answer_result(result)))
       ELSE Deliver(Returns(get_busyness_at_time_result(result)))

\* an exception leaves resolve_and_measure_at: get_busyness_at_time catches it,
\* compact_answer has no try and lets it go on
RmRaise(e) ==
    /\ rm_state' = "raised"
    /\ rm_result' = NoResult
    /\ IF callee = "compact_answer"
       THEN Deliver(Raises(e))
       ELSE Deliver(get_busyness_at_time_except(e))

(* ------------------------- find_peak_time tail ------------------------ *)
\* one entry of hourly_data
HourSample(h, v, test_time) ==
    [hour |-> h, popularity |-> v, time_str |-> lstrip0(strftime_IMp(test_time)),
     datetime |-> test_time]

\* position of hourly_data[i] in sorted(hourly_data, key=popularity, reverse=True):
\* the sort is stable, equal values keep their order
SortedPos(data, i) ==
    1 + Cardinality({ j \in 1..Len(data) :
                        \/ data[j].popularity > data[i].popularity
                        \/ data[j].popularity = data[i].popularity /\ j < i })

\* sorted(hourly_data, key=lambda x: x["popularity"], reverse=True)
sorted_by_popularity(data) ==
    [k \in 1..Len(data) |-> data[CHOOSE i \in 1..Len(data) : SortedPos(data, i) = k]]

\* mutant of top_three: the first three hours of the grid, unsorted
top_three_unsorted(data) == SubSeq(data, 1, Min(3, Len(data)))

\* top_3 = sorted_data[:3]
top_three(data) ==
    LET sorted_data == sorted_by_popularity(data)
    IN SubSeq(sorted_data, 1, Min(3, Len(sorted_data)))

\* mutant of AtThreshold: strictly above the threshold
AtThreshold_strict(item, peak) == 100 * item.popularity > 85 * peak.popularity

\* item["popularity"] >= sorted_data[0]["popularity"] * 0.85
AtThreshold(item, peak) == 100 * item.popularity >= 85 * peak.popularity

\* find_peak_time: the dict built once the hourly loop is over
find_peak_time_result(name, data) ==
    IF data = <<>>
    THEN [location |-> name, peak_hours |-> <<>>, all_hours |-> <<>>,
          peak_window |-> <<>>, average_busy_time |-> None, status |-> "unavailable",
          message |-> [fmt |-> "No historical busyness data available for {name}",
                       arg |-> name],
          keys |-> FPT_KEYS_NO_DATA]
    ELSE LET sorted_data == sorted_by_popularity(data)
             top_3 == top_three(data)
             peak_window == SelectSeq(data, LAMBDA item : AtThreshold(item, sorted_data[1]))
             peak == top_3[1]
         IN [location |-> name, peak_hours |-> top_3, all_hours |-> data,
             peak_window |-> peak_window, average_busy_time |-> None,
             status |-> "success",
             message |->
               [fmt |-> "{name} is typically busiest at {time_str} ({popularity}% busy)",
                arg |-> << name, peak.time_str, peak.popularity,
                           IF Len(peak_window) > 1
                           THEN << peak_window[1].time_str,
                                   peak_window[Len(peak_window)].time_str >>
                           ELSE <<>> >>],
             keys |-> FPT_KEYS_SUCCESS]

(* ------------------------------ actions ------------------------------- *)
Init ==
    /\ BUSYNESS_AVAILABLE \in BOOLEAN
    /\ pc = "idle"
    /\ entry = ""
    /\ callee = ""
    /\ query = <<>>
    /\ now \in NowChoices
    /\ clock = now
    /\ when = None
    /\ target = <<>>
    /\ day_offset = 0
    /\ top = TopNone
    /\ allow_live = FALSE
    /\ places = <<>>
    /\ idx = 0
    /\ best = NoBest
    /\ samples = <<>>
    /\ info = NoInfo
    /\ base_date = None
    /\ hour = 0
    /\ hourly_data = <<>>
    /\ val = None
    /\ src = ""
    /\ calls = NoCalls
    /\ failed = {}
    /\ sub_seen = FALSE
    /\ last_call = NoCall
    /\ rm_state = "none"
    /\ rm_result = NoResult
    /\ raised = FALSE
    /\ response = NoResponse
    /\ sub_obs = <<>>
    /\ fn = NoFn
    /\ nearby_body = NoBody
    /\ provider = NoProvider

\* what a call of an entry point leaves as it is
env == << BUSYNESS_AVAILABLE, now, clock, fn >>
\* what no step of a running call changes
ctx == << BUSYNESS_AVAILABLE, entry, callee, query, now, when, target, day_offset, fn >>
\* the locals of resolve_and_measure_at and find_peak_time
locals == << top, allow_live, places, idx, best, samples, info, base_date, hour, hourly_data,
            val, src >>
\* the record of the upstream calls
log == << calls, failed, sub_seen, last_call, sub_obs, nearby_body >>

\* get_busyness_at_time up to the text search of resolve_and_measure_at
EnterGetBusynessAtTime(q) ==
    /\ callee' = "get_busyness_at_time"
    /\ when' = _parse_when(q, now)
    /\ target' = IF ContainsAny(lower(q), GBAT_RAW_KEYWORDS) THEN q
                 ELSE _normalize_place_query(q)
    /\ day_offset' = 0
    /\ rm_state' = "running"
    /\ pc' = "text_search"
    /\ \E d \in BOOLEAN : provider' = [NoProvider EXCEPT !.deterministic = d]

\* find_peak_time up to its text search
EnterFindPeakTime(q, d) ==
    /\ callee' = "find_peak_time"
    /\ when' = None
    /\ target' = IF ContainsAny(lower(q), FPT_RAW_KEYWORDS) THEN q
                 ELSE _normalize_place_query(q)
    /\ day_offset' = d
    /\ rm_state' = "none"
    /\ pc' = "fpt_text_search"
    /\ provider' = NoProvider

\* the chat caller calls get_busyness_at_time(q)
get_busyness_at_time(q) ==
    /\ pc = "idle"
    /\ BUSYNESS_AVAILABLE
    /\ entry' = "get_busyness_at_time"
    /\ query' = q
    /\ EnterGetBusynessAtTime(q)
    /\ UNCHANGED << env, locals, log, rm_result, raised, response >>

\* compact_answer(q) up to the text search of resolve_and_measure_at: the place is
\* always normalised, and no exception is caught
compact_answer(q) ==
    /\ pc = "idle"
    /\ entry' = "compact_answer"
    /\ callee' = "compact_answer"
    /\ query' = q
    /\ when' = _parse_when(q, now)
    /\ target' = _normalize_place_query(q)
    /\ day_offset' = 0
    /\ rm_state' = "running"
    /\ pc' = "text_search"
    /\ provider' = NoProvider
    /\ UNCHANGED << env, locals, log, rm_result, raised, response >>

\* the chat caller calls find_peak_time(q, d)
find_peak_time(q, d) ==
    /\ pc = "idle"
    /\ BUSYNESS_AVAILABLE
    /\ entry' = "find_peak_time"
    /\ query' = q
    /\ EnterFindPeakTime(q, d)
    /\ UNCHANGED << env, locals, log, rm_result, raised, response >>

\* the chat caller calls query_busyness(q) while the busyness module is available
query_busyness(q) ==
    /\ pc = "idle"
    /\ BUSYNESS_AVAILABLE
    /\ entry' = "query_busyness"
    /\ query' = q
    /\ IF extract_busyness_query_type(q) = "peak_time"
       THEN EnterFindPeakTime(q, 0)
       ELSE EnterGetBusynessAtTime(q)
    /\ UNCHANGED << env, locals, log, rm_result, raised, response >>

\* the chat caller calls query_busyness(q) while the busyness module is missing
query_busyness_unavailable(q) ==
    /\ pc = "idle"
    /\ ~ BUSYNESS_AVAILABLE
    /\ entry' = "query_busyness"
    /\ query' = q
    /\ pc' = "done"
    /\ response' = [status |-> "unavailable", data |-> NoResponse, query_type |-> "",
                    message |-> [fmt |-> "Busyness data is currently unavailable",
                                 arg |-> <<>>]]
    /\ UNCHANGED << env, callee, when, target, day_offset, locals, log, rm_state,
                    rm_result, raised, provider >>

\* a helper function of rutgers_busyness.py is called on its own: it returns (or
\* raises) without any upstream call
FnCall(name, args, out) ==
    /\ pc = "idle"
    /\ pc' = "fn_done"
    /\ fn' = [name |-> name, args |-> args, out |-> out]
    /\ UNCHANGED << BUSYNESS_AVAILABLE, now, clock, entry, callee, query, when, target,
                    day_offset, locals, log, rm_state, rm_result, raised, response,
                    provider >>

\* _is_now(now + offset)
Call_is_now ==
    /\ pc = "idle"
    /\ \E offset \in IsNowOffsets :
         FnCall("_is_now", now + offset, Returns(_is_now(now + offset, now)))

\* _parse_when(q)
Call_parse_when ==
    /\ pc = "idle"
    /\ \E q \in TimeTexts \cup OddTimeTexts :
         FnCall("_parse_when", q, _parse_when_outcome(q, now))

\* _weighted_area_estimate(clat, clng, smpls), the center at location 0
Call_weighted_area_estimate ==
    /\ pc = "idle"
    /\ \E smpls \in SampleLists :
         \E est \in _weighted_area_estimate(0, smpls) :
            FnCall("_weighted_area_estimate", smpls, Returns(est))

\* extract_busyness_query_type(q)
Call_extract_busyness_query_type ==
    /\ pc = "idle"
    /\ \E q \in QueryTypeTexts :
         FnCall("extract_busyness_query_type", q, Returns(extract_busyness_query_type(q)))

\* first position from i on of a place with an id (`if not spid: continue`)
RECURSIVE NextWithId(_, _)
NextWithId(list, i) ==
    IF i > Len(list) \/ list[i].id # "" THEN i ELSE NextWithId(list, i + 1)

\* mutant of RankGreater: the value alone is compared, not the source rank
RankGreater_value(a, b) == a[2] > b[2]

\* tuple comparison rank > best["rank"]
RankGreater(a, b) == a[1] > b[1] \/ (a[1] = b[1] /\ a[2] > b[2])

\* mutant of better: `if best and rank > best["rank"]`
better_and(rank, b) == b # NoBest /\ RankGreater(rank, b.rank)

\* `if not best or rank > best["rank"]`
better(rank, b) == b = NoBest \/ RankGreater(rank, b.rank)

\* mutant of place_tier_hit: the place tier never returns early
place_tier_hit_never(v) == FALSE

\* `if isinstance(val, int): return {... "method": "place" ...}`
place_tier_hit(v) == IsInt(v)

SUBVENUE_TYPES == << "restaurant", "cafe", "fast_food_restaurant", "food_court", "gym" >>

\* _nearby_places: the body of the request
_nearby_places_body(radius_m, included_types, max_count) ==
    [maxResultCount |-> Max(1, Min(20, max_count)),
     includedTypes |-> SubSeq(included_types, 1, Min(5, Len(included_types))),
     radius |-> radius_m]

\* resolve_and_measure_at, B): _nearby_places(clat, clng, radius_m=300,
\* included_types=SUBVENUE_TYPES, max_count=15)
sub_nearby_body == _nearby_places_body(300, SUBVENUE_TYPES, 15)

\* mutant of area_nearby_body: the radius the comment of tier C names
area_nearby_body_250 == _nearby_places_body(250, SUBVENUE_TYPES, 15)

\* resolve_and_measure_at, C): _nearby_places(clat, clng, radius_m=300,
\* included_types=SUBVENUE_TYPES, max_count=15)
area_nearby_body == _nearby_places_body(300, SUBVENUE_TYPES, 15)

\* the nearby search answers the request with body b by o: it returns at most
\* maxResultCount places, and a deterministic provider answers the request it has
\* seen during this query as it did before
NearbyAnswers(b, o) ==
    /\ Len(o.value) <= b.maxResultCount
    /\ provider.deterministic =>
          \A e \in provider.nearby : e.body = b => e.out = o

\* populartimes.get_id answers for place id with a payload that reads r at
\* (when_local, live): a deterministic provider gives the reading it gave before
\* for the same place, time and allow_live during this query
ReadingAnswers(id, when_local, live, r) ==
    provider.deterministic =>
       \A e \in provider.readings :
          e.id = id /\ e.when = when_local /\ e.allow_live = live => e.reading = r

\* the providers after the nearby search answered b by o
AfterNearby(b, o) ==
    IF provider.deterministic
    THEN [provider EXCEPT !.nearby = @ \cup { [body |-> b, out |-> o] }]
    ELSE provider

\* the providers after populartimes.get_id answered for place id
AfterReading(id, when_local, live, r) ==
    IF provider.deterministic
    THEN [provider EXCEPT !.readings =
            @ \cup { [id |-> id, when |-> when_local, allow_live |-> live, reading |-> r] }]
    ELSE provider

\* mutant of sub_places_try: the call is not wrapped in try/except
sub_places_notry(o) == o

\* tier B: try: sub_places = _nearby_places(...) except Exception: sub_places = []
sub_places_try(o) == IF o.raises THEN Returns(<<>>) ELSE o

\* tier C: try: area_places = _nearby_places(...) except Exception: area_places = []
area_places_try(o) == IF o.raises THEN Returns(<<>>) ELSE o

\* _get_popularity_for_id_at(..., delay_s: float = 0.2), in milliseconds; no caller
\* passes another delay
delay_s == 200

\* mutant of sleep: the call does not wait
sleep_none(d) == 0

\* time.sleep(delay_s) before populartimes.get_id: the time the call waits
sleep(d) == d

\* the call _get_popularity_for_id_at(.., when_local, allow_live) whose get_id gave o
Called(o, when_local, live) ==
    LET r == _get_popularity_for_id_at(o.value, when_local, live)
    IN IF o.raises
       THEN [NoCall EXCEPT !.when = when_local, !.allow_live = live, !.slept = sleep(delay_s)]
       ELSE [info |-> o.value, when |-> when_local, allow_live |-> live,
             val |-> r.val, src |-> r.src, slept |-> sleep(delay_s)]

\* time passes while the call waits for the upstream answer
ClockAdvances ==
    clock' \in IF clock - now < MaxTicks * Tick THEN { clock, clock + Tick } ELSE { clock }

\* an upstream call at site has returned or raised
Logged(site, o) ==
    /\ calls' = Count(site)
    /\ failed' = IF o.raises THEN failed \cup {site} ELSE failed

\* resolve_and_measure_at: the text search returns; _is_now reads datetime.now()
\* after it
TextSearchReturns(o) ==
    /\ pc = "text_search"
    /\ ClockAdvances
    /\ Logged("text", o)
    /\ IF o.raises
       THEN RmRaise("text_search") /\ UNCHANGED << top, allow_live >>
       ELSE IF ~ o.value.found
       THEN RmReturn(NoResult) /\ UNCHANGED << top, allow_live >>
       ELSE /\ top' = o.value
            /\ allow_live' = _is_now(when, clock')
            /\ pc' = "place_pop"
            /\ UNCHANGED << rm_state, rm_result, raised, response >>
    /\ UNCHANGED << ctx, places, idx, best, samples, info, base_date, hour, hourly_data, val, src,
                    sub_seen, sub_obs, last_call, nearby_body, provider >>

\* resolve_and_measure_at, A) Place itself: populartimes.get_id returns
PlacePopularityReturns(o) ==
    /\ pc = "place_pop"
    /\ ClockAdvances
    /\ Logged("pop_place", o)
    /\ last_call' = Called(o, when, allow_live)
    /\ IF o.raises
       THEN RmRaise("popularity") /\ UNCHANGED << val, src >>
       ELSE LET r == _get_popularity_for_id_at(o.value, when, allow_live)
            IN /\ val' = r.val
               /\ src' = r.src
               /\ IF place_tier_hit(r.val)
                  THEN RmReturn(Result(r.val, r.src, "place", "", None))
                  ELSE /\ pc' = "sub_nearby"
                       /\ UNCHANGED << rm_state, rm_result, raised, response >>
    /\ UNCHANGED << ctx, top, allow_live, places, idx, best, samples, info, base_date, hour,
                    hourly_data, sub_seen, sub_obs, nearby_body, provider >>

\* resolve_and_measure_at, B) Sub-venues: _nearby_places returns
\* (without coordinates float(lat) raises before any request is sent)
SubNearbyReturns(o) ==
    /\ pc = "sub_nearby"
    /\ ClockAdvances
    /\ o.raises \/ top.location # None
    /\ Logged("nearby_sub", o)
    /\ IF top.location = None
       THEN UNCHANGED << nearby_body, provider >>
       ELSE /\ NearbyAnswers(sub_nearby_body, o)
            /\ nearby_body' = sub_nearby_body
            /\ provider' = AfterNearby(sub_nearby_body, o)
    /\ LET r == sub_places_try(o)
           j == NextWithId(r.value, 1)
       IN IF r.raises
          THEN RmRaise("nearby") /\ UNCHANGED << places, idx >>
          ELSE /\ places' = r.value
               /\ IF j <= Len(r.value)
                  THEN idx' = j /\ pc' = "sub_pop"
                  ELSE idx' = 0 /\ pc' = "area_nearby"
               /\ UNCHANGED << rm_state, rm_result, raised, response >>
    /\ UNCHANGED << ctx, top, allow_live, best, samples, info, base_date, hour, hourly_data, val,
                    src, sub_seen, sub_obs, last_call >>

\* mutant of subvenue_result: the result is that of the sub-venue, not of the place
subvenue_result_own(b) ==
    [Result(b.val, b.src, "subvenue", b.id, None) EXCEPT !.place_id = b.id]

\* resolve_and_measure_at, B): `if best: return {...}`
subvenue_result(b) == Result(b.val, b.src, "subvenue", b.id, None)

\* resolve_and_measure_at, B) Sub-venues: populartimes.get_id returns for sub_places[idx]
SubPopularityReturns(o) ==
    /\ pc = "sub_pop"
    /\ ClockAdvances
    /\ Logged("pop_sub", o)
    /\ last_call' = Called(o, when, allow_live)
    /\ IF o.raises
       THEN RmRaise("popularity") /\ UNCHANGED << idx, best, sub_seen, sub_obs, provider >>
       ELSE LET sp == places[idx]
                r == _get_popularity_for_id_at(o.value, when, allow_live)
                rank == << IF r.src = "live" THEN 2 ELSE 1, r.val >>
                nb == IF IsInt(r.val) /\ better(rank, best)
                      THEN [val |-> r.val, src |-> r.src, rank |-> rank, id |-> sp.id,
                            name |-> sp.name, location |-> sp.location]
                      ELSE best
                j == NextWithId(places, idx + 1)
            IN /\ ReadingAnswers(sp.id, when, allow_live, r)
               /\ provider' = AfterReading(sp.id, when, allow_live, r)
               /\ best' = nb
               /\ sub_seen' = (sub_seen \/ IsInt(r.val))
               /\ sub_obs' = IF IsInt(r.val)
                             THEN Append(sub_obs, [val |-> r.val, src |-> r.src,
                                                   rank |-> rank, id |-> sp.id])
                             ELSE sub_obs
               /\ IF j <= Len(places)
                  THEN /\ idx' = j
                       /\ UNCHANGED << pc, rm_state, rm_result, raised, response >>
                  ELSE /\ idx' = 0
                       /\ IF nb # NoBest
                          THEN RmReturn(subvenue_result(nb))
                          ELSE /\ pc' = "area_nearby"
                               /\ UNCHANGED << rm_state, rm_result, raised, response >>
    /\ UNCHANGED << ctx, top, allow_live, places, samples, info, base_date, hour, hourly_data, val,
                    src, nearby_body >>

\* mutant of AreaFinish: the estimate of the samples is not used
AreaFinish_none(smpls) == RmReturn(Result(None, "unavailable", "none", "", None))

\* resolve_and_measure_at, C) Area estimate: the tail after the loop over area_places
AreaFinish(smpls) ==
    \E est \in _weighted_area_estimate(top.location, smpls) :
       IF IsInt(est)
       THEN RmReturn(Result(est, "area", "area_weighted", "", Len(smpls)))
       ELSE RmReturn(Result(None, "unavailable", "none", "", None))

\* resolve_and_measure_at, C) Area estimate: _nearby_places returns
AreaNearbyReturns(o) ==
    /\ pc = "area_nearby"
    /\ ClockAdvances
    /\ o.raises \/ top.location # None
    /\ Logged("nearby_area", o)
    /\ IF top.location = None
       THEN UNCHANGED << nearby_body, provider >>
       ELSE /\ NearbyAnswers(area_nearby_body, o)
            /\ nearby_body' = area_nearby_body
            /\ provider' = AfterNearby(area_nearby_body, o)
    /\ LET r == area_places_try(o)
           j == NextWithId(r.value, 1)
       IN IF r.raises
          THEN RmRaise("nearby") /\ UNCHANGED << places, idx >>
          ELSE /\ places' = r.value
               /\ IF j <= Len(r.value)
                  THEN /\ idx' = j
                       /\ pc' = "area_pop"
                       /\ UNCHANGED << rm_state, rm_result, raised, response >>
                  ELSE /\ idx' = 0
                       /\ AreaFinish(<<>>)
    /\ UNCHANGED << ctx, top, allow_live, best, samples, info, base_date, hour, hourly_data, val,
                    src, sub_seen, sub_obs, last_call >>

\* mutant of area_allow_live: tier C always accepts a live reading
area_allow_live_always == TRUE

\* resolve_and_measure_at, C): _get_popularity_for_id_at(apid, when_local, allow_live)
area_allow_live == allow_live

\* resolve_and_measure_at, C) Area estimate: populartimes.get_id returns for area_places[idx]
AreaPopularityReturns(o) ==
    /\ pc = "area_pop"
    /\ ClockAdvances
    /\ Logged("pop_area", o)
    /\ last_call' = Called(o, when, area_allow_live)
    /\ IF o.raises
       THEN RmRaise("popularity") /\ UNCHANGED << idx, samples, provider >>
       ELSE LET ap == places[idx]
                r == _get_popularity_for_id_at(o.value, when, area_allow_live)
                ns == IF IsInt(r.val) /\ ap.location # None
                      THEN Append(samples, [location |-> ap.location, val |-> r.val])
                      ELSE samples
                j == NextWithId(places, idx + 1)
            IN /\ ReadingAnswers(ap.id, when, area_allow_live, r)
               /\ provider' = AfterReading(ap.id, when, area_allow_live, r)
               /\ samples' = ns
               /\ IF j <= Len(places)
                  THEN /\ idx' = j
                       /\ UNCHANGED << pc, rm_state, rm_result, raised, response >>
                  ELSE /\ idx' = 0
                       /\ AreaFinish(ns)
    /\ UNCHANGED << ctx, top, allow_live, places, best, info, base_date, hour, hourly_data, val,
                    src, sub_seen, sub_obs, nearby_body >>

\* `for hour in range(7, 23)`
FirstHour == 7
LastHour == 22

\* mutant of peak_allow_live: live readings are allowed for an hour that is now
peak_allow_live_now(test_time) == _is_now(test_time, now)

\* find_peak_time: _get_popularity_for_id_at(pid, test_time, allow_live=False)
peak_allow_live(test_time) == FALSE

\* find_peak_time: the text search returns; `now = datetime.now()` is read then,
\* and base_date is that reading plus day_offset days
PeakTextSearchReturns(o) ==
    /\ pc = "fpt_text_search"
    /\ ClockAdvances
    /\ Logged("text", o)
    /\ IF o.raises
       THEN /\ Deliver(find_peak_time_except("text_search"))
            /\ UNCHANGED << top, base_date, hour >>
       ELSE IF ~ o.value.found
       THEN /\ Deliver(Returns(
                 [location |-> target, peak_hours |-> <<>>, all_hours |-> <<>>,
                  peak_window |-> <<>>, average_busy_time |-> None, status |-> "error",
                  message |-> [fmt |-> "Could not find location: {target}",
                               arg |-> target],
                  keys |-> FPT_KEYS_NO_DATA]))
            /\ UNCHANGED << top, base_date, hour >>
       ELSE /\ top' = o.value
            /\ base_date' = clock' + days(day_offset)
            /\ hour' = FirstHour
            /\ pc' = "fpt_pop"
            /\ UNCHANGED << raised, response >>
    /\ UNCHANGED << ctx, allow_live, places, idx, best, samples, info, hourly_data,
                    val, src, sub_seen, sub_obs, last_call, rm_state, rm_result,
                    nearby_body, provider >>

\* populartimes.get_id answers the call for the hour of the loop with payload i: the
\* first call gets any payload, a later one the payload of the call before or,
\* while the answer may still change, another one
PeakAnswers(i) ==
    IF hour = FirstHour THEN i \in PeakPayloads
    ELSE i = info \/ (provider.changes < MaxChanges /\ i \in PeakChangePayloads)

\* find_peak_time: populartimes.get_id returns (or raises) for the hour of the loop
PeakPopularityReturns(o) ==
    LET test_time == replace_hm(base_date, hour, 0)
    IN
    /\ pc = "fpt_pop"
    /\ ClockAdvances
    /\ o.raises \/ PeakAnswers(o.value)
    /\ Logged("pop_peak", o)
    /\ last_call' = Called(o, test_time, peak_allow_live(test_time))
    /\ IF o.raises
       THEN /\ Deliver(find_peak_time_except("popularity"))
            /\ UNCHANGED << info, hour, hourly_data, val, src, provider >>
       ELSE LET r == _get_popularity_for_id_at(o.value, test_time,
                                               peak_allow_live(test_time))
                data == IF IsInt(r.val)
                        THEN Append(hourly_data, HourSample(hour, r.val, test_time))
                        ELSE hourly_data
            IN /\ info' = o.value
               /\ provider' = IF hour > FirstHour /\ o.value # info
                               THEN [provider EXCEPT !.changes = @ + 1]
                               ELSE provider
               /\ val' = r.val
               /\ src' = r.src
               /\ hourly_data' = data
               /\ IF hour < LastHour
                  THEN hour' = hour + 1 /\ UNCHANGED << pc, raised, response >>
                  ELSE /\ hour' = hour
                       /\ Deliver(Returns(find_peak_time_result(NameOf(top, target), data)))
    /\ UNCHANGED << ctx, top, allow_live, places, idx, best, samples, base_date, sub_seen,
                    sub_obs, rm_state, rm_result, nearby_body >>

(* ------------------ GET /busyness: resolve_and_measure ------------------ *)
\* _hist_current_hour(info): the entry of the grid for datetime.now(), read once
\* populartimes.get_id has answered
_hist_current_hour(i) == _hist_at(i, clock')

\* _get_popularity_for_id: the reading of the payload populartimes.get_id returned
_get_popularity_for_id(i) ==
    IF IsInt(i.current_popularity) THEN [val |-> i.current_popularity, src |-> "live"]
    ELSE IF IsInt(_hist_current_hour(i))
    THEN [val |-> _hist_current_hour(i), src |-> "historical"]
    ELSE [val |-> None, src |-> "unavailable"]

\* the two searches resolve_and_measure wraps in try/except, and the two it does not
try_sub_nearby_body == _nearby_places_body(300, SUBVENUE_TYPES, 20)
try_area_nearby_body == _nearby_places_body(350, SUBVENUE_TYPES, 20)
rm_sub_nearby_body == _nearby_places_body(300, SUBVENUE_TYPES, 20)
rm_area_nearby_body == _nearby_places_body(300, SUBVENUE_TYPES, 20)

\* busyness: the response built from what resolve_and_measure returned
busyness_response(data) ==
    IF data.is_none
    THEN [status_code |-> 404, error |-> "not_found", result |-> NoResult]
    ELSE [status_code |-> 200, error |-> "", result |-> data]

\* resolve_and_measure returns data to the handler
ApiReturn(data) ==
    /\ pc' = "api_done"
    /\ raised' = FALSE
    /\ response' = busyness_response(data)

\* an exception leaves resolve_and_measure and the handler, which catches nothing
ApiRaise ==
    /\ pc' = "api_done"
    /\ raised' = TRUE
    /\ response' = NoResponse

\* what no step of resolve_and_measure changes: it has no when_local and no
\* allow_live, and its results go to the handler
at_only == << allow_live, info, base_date, hour, hourly_data, last_call, rm_state, rm_result, provider >>

\* one _nearby_places call of resolve_and_measure: the body is built after
\* float(lat) succeeded, and the search returns at most maxResultCount places
ApiNearby(site, b, o) ==
    /\ o.raises \/ top.location # None
    /\ ClockAdvances
    /\ Logged(site, o)
    /\ Len(o.value) <= b.maxResultCount
    /\ nearby_body' = IF top.location = None THEN nearby_body ELSE b

\* GET /busyness?q=...: the handler calls resolve_and_measure(q)
busyness(q) ==
    /\ pc = "idle"
    /\ entry' = "busyness"
    /\ callee' = "resolve_and_measure"
    /\ query' = q
    /\ target' = q
    /\ pc' = "api_text_search"
    /\ UNCHANGED << env, when, day_offset, locals, log, rm_state, rm_result, raised,
                    response, provider >>

\* resolve_and_measure: the text search returns
ApiTextSearchReturns(o) ==
    /\ pc = "api_text_search"
    /\ ClockAdvances
    /\ Logged("text", o)
    /\ IF o.raises
       THEN ApiRaise /\ UNCHANGED top
       ELSE IF ~ o.value.found
       THEN ApiReturn(NoResult) /\ UNCHANGED top
       ELSE /\ top' = o.value
            /\ pc' = "api_place_pop"
            /\ UNCHANGED << raised, response >>
    /\ UNCHANGED << ctx, at_only, places, idx, best, samples, val, src, sub_seen, sub_obs,
                    nearby_body >>

\* resolve_and_measure, the place itself: populartimes.get_id returns
ApiPlacePopularityReturns(o) ==
    /\ pc = "api_place_pop"
    /\ ClockAdvances
    /\ Logged("rm_pop_place", o)
    /\ IF o.raises
       THEN ApiRaise /\ UNCHANGED << val, src >>
       ELSE LET r == _get_popularity_for_id(o.value)
            IN /\ val' = r.val
               /\ src' = r.src
               /\ IF IsInt(r.val)
                  THEN ApiReturn(Result(r.val, r.src, "place", "", None))
                  ELSE /\ pc' = "api_try_sub_nearby"
                       /\ UNCHANGED << raised, response >>
    /\ UNCHANGED << ctx, at_only, top, places, idx, best, samples, sub_seen, sub_obs,
                    nearby_body >>

\* resolve_and_measure: the first search for sub-venues, in try/except, returns; the
\* list it assigns to sub_places is replaced before it is read
ApiTrySubNearbyReturns(o) ==
    /\ pc = "api_try_sub_nearby"
    /\ ApiNearby("rm_try_sub", try_sub_nearby_body, o)
    /\ pc' = "api_try_area_nearby"
    /\ UNCHANGED << ctx, at_only, top, places, idx, best, samples, val, src, sub_seen,
                    sub_obs, raised, response >>

\* resolve_and_measure: the first search for the area, in try/except, returns; the
\* list it assigns to area_places is replaced before it is read
ApiTryAreaNearbyReturns(o) ==
    /\ pc = "api_try_area_nearby"
    /\ ApiNearby("rm_try_area", try_area_nearby_body, o)
    /\ pc' = "api_sub_nearby"
    /\ UNCHANGED << ctx, at_only, top, places, idx, best, samples, val, src, sub_seen,
                    sub_obs, raised, response >>

\* resolve_and_measure, sub-venues: the second search, outside any try, returns
ApiSubNearbyReturns(o) ==
    /\ pc = "api_sub_nearby"
    /\ ApiNearby("rm_nearby_sub", rm_sub_nearby_body, o)
    /\ LET j == NextWithId(o.value, 1)
       IN IF o.raises
          THEN ApiRaise /\ UNCHANGED << places, idx >>
          ELSE /\ places' = o.value
               /\ IF j <= Len(o.value)
                  THEN idx' = j /\ pc' = "api_sub_pop"
                  ELSE idx' = 0 /\ pc' = "api_area_nearby"
               /\ UNCHANGED << raised, response >>
    /\ UNCHANGED << ctx, at_only, top, best, samples, val, src, sub_seen, sub_obs >>

\* resolve_and_measure, sub-venues: populartimes.get_id returns for sub_places[idx]
ApiSubPopularityReturns(o) ==
    /\ pc = "api_sub_pop"
    /\ ClockAdvances
    /\ Logged("rm_pop_sub", o)
    /\ IF o.raises
       THEN ApiRaise /\ UNCHANGED << idx, best, sub_seen, sub_obs >>
       ELSE LET sp == places[idx]
                r == _get_popularity_for_id(o.value)
                rank == << IF r.src = "live" THEN 2 ELSE 1, r.val >>
                nb == IF IsInt(r.val) /\ better(rank, best)
                      THEN [val |-> r.val, src |-> r.src, rank |-> rank, id |-> sp.id,
                            name |-> sp.name, location |-> sp.location]
                      ELSE best
                j == NextWithId(places, idx + 1)
            IN /\ best' = nb
               /\ sub_seen' = (sub_seen \/ IsInt(r.val))
               /\ sub_obs' = IF IsInt(r.val)
                             THEN Append(sub_obs, [val |-> r.val, src |-> r.src,
                                                   rank |-> rank, id |-> sp.id])
                             ELSE sub_obs
               /\ IF j <= Len(places)
                  THEN idx' = j /\ UNCHANGED << pc, raised, response >>
                  ELSE /\ idx' = 0
                       /\ IF nb # NoBest
                          THEN ApiReturn(Result(nb.val, nb.src, "subvenue", nb.id, None))
                          ELSE pc' = "api_area_nearby" /\ UNCHANGED << raised, response >>
    /\ UNCHANGED << ctx, at_only, top, places, samples, val, src, nearby_body >>

\* resolve_and_measure, area estimate: the tail after the loop over area_places
ApiAreaFinish(smpls) ==
    \E est \in _weighted_area_estimate(top.location, smpls) :
       IF IsInt(est)
       THEN ApiReturn(Result(est, "area", "area_weighted", "", Len(smpls)))
       ELSE ApiReturn(Result(None, "unavailable", "none", "", None))

\* resolve_and_measure, area estimate: the second search, outside any try, returns
ApiAreaNearbyReturns(o) ==
    /\ pc = "api_area_nearby"
    /\ ApiNearby("rm_nearby_area", rm_area_nearby_body, o)
    /\ LET j == NextWithId(o.value, 1)
       IN IF o.raises
          THEN ApiRaise /\ UNCHANGED << places, idx >>
          ELSE /\ places' = o.value
               /\ IF j <= Len(o.value)
                  THEN idx' = j /\ pc' = "api_area_pop" /\ UNCHANGED << raised, response >>
                  ELSE idx' = 0 /\ ApiAreaFinish(<<>>)
    /\ UNCHANGED << ctx, at_only, top, best, samples, val, src, sub_seen, sub_obs >>

\* resolve_and_measure, area estimate: populartimes.get_id returns for area_places[idx]
ApiAreaPopularityReturns(o) ==
    /\ pc = "api_area_pop"
    /\ ClockAdvances
    /\ Logged("rm_pop_area", o)
    /\ IF o.raises
       THEN ApiRaise /\ UNCHANGED << idx, samples >>
       ELSE LET ap == places[idx]
                r == _get_popularity_for_id(o.value)
                ns == IF IsInt(r.val) /\ ap.location # None
                      THEN Append(samples, [location |-> ap.location, val |-> r.val])
                      ELSE samples
                j == NextWithId(places, idx + 1)
            IN /\ samples' = ns
               /\ IF j <= Len(places)
                  THEN idx' = j /\ UNCHANGED << pc, raised, response >>
                  ELSE idx' = 0 /\ ApiAreaFinish(ns)
    /\ UNCHANGED << ctx, at_only, top, places, best, val, src, sub_seen, sub_obs,
                    nearby_body >>


Next ==
    \/ \E q \in GbatTexts : get_busyness_at_time(q)
    \/ \E c \in PeakCalls : find_peak_time(c.location_query, c.day_offset)
    \/ \E q \in QueryTexts : query_busyness(q)
    \/ \E q \in CompactTexts : compact_answer(q)
    \/ \E q \in Texts : query_busyness_unavailable(q)
    \/ \E o \in TextSearchOutcomes : TextSearchReturns(o)
    \/ \E o \in PopularityOutcomes : PlacePopularityReturns(o)
    \/ \E o \in NearbyOutcomes : SubNearbyReturns(o)
    \/ \E o \in CandPopularityOutcomes : SubPopularityReturns(o)
    \/ \E o \in NearbyOutcomes : AreaNearbyReturns(o)
    \/ \E o \in CandPopularityOutcomes : AreaPopularityReturns(o)
    \/ \E o \in TextSearchOutcomes : PeakTextSearchReturns(o)
    \/ \E o \in PeakPopularityOutcomes : PeakPopularityReturns(o)
    \/ Call_is_now
    \/ Call_parse_when
    \/ Call_weighted_area_estimate
    \/ Call_extract_busyness_query_type
    \/ \E q \in ApiTexts : busyness(q)
    \/ \E o \in TextSearchOutcomes : ApiTextSearchReturns(o)
    \/ \E o \in PopularityOutcomes : ApiPlacePopularityReturns(o)
    \/ \E o \in NearbyOutcomes : ApiTrySubNearbyReturns(o)
    \/ \E o \in NearbyOutcomes : ApiTryAreaNearbyReturns(o)
    \/ \E o \in NearbyOutcomes : ApiSubNearbyReturns(o)
    \/ \E o \in CandPopularityOutcomes : ApiSubPopularityReturns(o)
    \/ \E o \in NearbyOutcomes : ApiAreaNearbyReturns(o)
    \/ \E o \in CandPopularityOutcomes : ApiAreaPopularityReturns(o)

Spec == Init /\ [][Next]_vars

TypeOK ==
    /\ pc \in {"idle", "text_search", "place_pop", "sub_nearby", "sub_pop", "area_nearby",
               "area_pop", "fpt_text_search", "fpt_pop", "done", "fn_done",
               "api_text_search", "api_place_pop", "api_try_sub_nearby",
               "api_try_area_nearby", "api_sub_nearby", "api_sub_pop", "api_area_nearby",
               "api_area_pop", "api_done"}
    /\ rm_state \in {"none", "running", "returned", "raised"}
    /\ raised \in BOOLEAN

(* ------------------------------- claims ------------------------------- *)
\* the entry points the chat pipeline calls
ChatEntries == { "get_busyness_at_time", "find_peak_time", "query_busyness" }

\* what the helper (get_busyness_at_time or find_peak_time) returned
Inner == IF entry = "query_busyness" THEN response.data ELSE response

RmRunning == callee = "get_busyness_at_time"
RmReturned == rm_state = "returned" /\ ~ rm_result.is_none
PopSites == {"pop_place", "pop_sub", "pop_area"}
InRange(p) == p = None \/ (p >= 0 /\ p <= 100)
\* the estimates _weighted_area_estimate can return for the samples of tier C
AreaEstimate == _weighted_area_estimate(top.location, samples)

\* C1: once the place-tier call of resolve_and_measure_at has returned an integer,
\* the function has returned and no nearby search and no further popularity call
\* was issued: the call counts of the sub-venue and of the area tier are 0
C1_PlaceTierShortCircuits ==
    RmRunning /\ IsInt(val) =>
        /\ pc = "done"
        /\ calls.nearby_sub = 0 /\ calls.pop_sub = 0
        /\ calls.nearby_area = 0 /\ calls.pop_area = 0
        /\ calls.pop_place = 1

C1_Witness ==
    /\ RmReturned /\ IsInt(val)
    /\ rm_result.method = "place" /\ rm_result.popularity = val
    /\ calls.pop_place = 1

\* C2: without a failing upstream call, the result of resolve_and_measure_at for a
\* resolved place is that of the first tier with a value, in the order place,
\* sub-venue, area: method and popularity are determined by which tiers have a value
C2_FirstTierWithValue ==
    RmReturned /\ failed = {} =>
        /\ rm_result.method = "place" <=> IsInt(val)
        /\ rm_result.method = "subvenue" <=> ~ IsInt(val) /\ sub_seen
        /\ rm_result.method = "area_weighted"
             <=> ~ IsInt(val) /\ ~ sub_seen /\ AreaEstimate # { None }
        /\ rm_result.method = "none"
             <=> ~ IsInt(val) /\ ~ sub_seen /\ AreaEstimate = { None }
        /\ rm_result.method = "place"
             => rm_result.popularity = val /\ rm_result.source = src
        /\ rm_result.method = "subvenue"
             => rm_result.popularity = best.val /\ rm_result.source = best.src
        /\ rm_result.method = "area_weighted" => rm_result.popularity \in AreaEstimate

C2_Witness ==
    /\ RmReturned /\ failed = {}
    /\ rm_result.method = "area_weighted"
    /\ calls.pop_place = 1 /\ calls.nearby_sub = 1 /\ calls.pop_sub >= 1

\* C3: with provider readings in 0..100, the popularity of every result of
\* resolve_and_measure_at and of get_busyness_at_time is None or in 0..100, and
\* source 'unavailable' comes with popularity None
C3_PopularityInRange ==
    /\ RmReturned =>
         /\ InRange(rm_result.popularity)
         /\ rm_result.source = "unavailable" => rm_result.popularity = None
    /\ pc = "done" /\ RmRunning /\ ~ raised =>
         /\ InRange(Inner.popularity)
         /\ Inner.source = "unavailable" => Inner.popularity = None

C3_Witness ==
    /\ pc = "done" /\ RmRunning /\ ~ raised
    /\ Inner.popularity = 100 /\ Inner.source = "historical"

\* C4 (as claimed): a failing popularity-provider call never makes an exception
\* leave resolve_and_measure_at
C4_PopularityFailureAbsorbed ==
    failed \cap PopSites # {} => rm_state # "raised"

\* C5: a failing nearby search is absorbed: after a failing sub-venue search no
\* sub-venue is asked and the area search is the next call; after a failing area
\* search the result with method 'none' is returned; the exception that leaves
\* resolve_and_measure_at is never that of a nearby search
C5_NearbyFailureAbsorbed ==
    /\ "nearby_sub" \in failed =>
         /\ calls.pop_sub = 0 /\ best = NoBest
         /\ pc = "area_nearby" \/ calls.nearby_area = 1
    /\ "nearby_area" \in failed =>
         /\ pc = "done" /\ RmReturned
         /\ rm_result.method = "none" /\ rm_result.popularity = None
         /\ rm_result.source = "unavailable"
         /\ calls.pop_area = 0 /\ samples = <<>>
    /\ rm_state = "raised" => failed \cap (PopSites \cup {"text"}) # {}

C5_Witness ==
    /\ {"nearby_sub", "nearby_area"} \subseteq failed
    /\ top.location # None
    /\ RmReturned /\ rm_result.method = "none"

\* the response carries a human-readable message: query_busyness hands on the
\* message of its helper under "data"
HasMessage ==
    IF entry = "query_busyness" /\ response.message.fmt = ""
    THEN response.data.message.fmt # ""
    ELSE response.message.fmt # ""

TotalCalls ==
    calls.text + calls.nearby_sub + calls.nearby_area + calls.pop_place + calls.pop_sub
      + calls.pop_area + calls.pop_peak

\* the most upstream calls one entry point can issue: the text search and the 16
\* hours of find_peak_time, or the text search, the place, the two nearby
\* searches and their places
MaxCalls ==
    IF callee = "find_peak_time" THEN 1 + (LastHour - FirstHour + 1)
    ELSE 4 + 2 * MaxCand

\* C6: whatever the text and whatever the upstream calls do (a value, nothing, an
\* exception), an entry point that was called ends by returning: it issues a
\* bounded number of upstream calls, and when it is over no exception has left it
\* and its response has a status among success, unavailable, error and a message
C6_AlwaysAResponse ==
    /\ TotalCalls <= MaxCalls
    /\ pc = "done" /\ entry \in ChatEntries =>
         /\ ~ raised
         /\ response.status \in {"success", "unavailable", "error"}
         /\ HasMessage

C6_Witness ==
    /\ pc = "done" /\ entry = "query_busyness"
    /\ "pop_sub" \in failed
    /\ response.status = "error" /\ HasMessage

\* C7: when the text search returns no place, get_busyness_at_time answers with
\* status 'error', the message that the location could not be found and popularity
\* None, find_peak_time with status 'error' and no peak hours; the text search was
\* called once and no other upstream call was made
C7_NotFoundIsTerminal ==
    pc = "done" /\ callee \in { "get_busyness_at_time", "find_peak_time" }
       /\ "text" \notin failed /\ ~ top.found =>
        /\ calls = [NoCalls EXCEPT !.text = 1]
        /\ Inner.status = "error"
        /\ Inner.message = [fmt |-> "Could not find location: {target}", arg |-> target]
        /\ callee = "get_busyness_at_time" => Inner.popularity = None
        /\ callee = "find_peak_time" => Inner.peak_hours = <<>>

C7_Witness ==
    /\ pc = "done" /\ callee = "get_busyness_at_time" /\ entry = "query_busyness"
    /\ "text" \notin failed /\ ~ top.found
    /\ response.status = "error"

\* C8 (as claimed): whenever the place resolves and no tier produces a value,
\* get_busyness_at_time answers status 'unavailable', popularity None, source
\* 'unavailable' and method 'none'
C8_UnavailableNotError ==
    /\ pc = "done" /\ RmRunning /\ top.found
    /\ ~ (rm_state = "returned" /\ IsInt(rm_result.popularity))
    => /\ Inner.status = "unavailable"
       /\ Inner.popularity = None
       /\ Inner.source = "unavailable"
       /\ Inner.method = "none"

\* C9: a call of _get_popularity_for_id_at with allow_live=False never returns
\* source 'live', whatever the place, the time and the payload
C9_NoLiveUnlessAllowed ==
    ~ last_call.allow_live => last_call.src # "live"

C9_Witness ==
    /\ ~ last_call.allow_live
    /\ IsInt(last_call.info.current_popularity)
    /\ _is_now(last_call.when, now)
    /\ last_call.src = "historical"

\* C10 (as claimed): when no live reading is used and the weekly grid has a value
\* at the weekday and hour of the request, _get_popularity_for_id_at returns
\* exactly that value
C10_ExactHourWins ==
    /\ last_call.src = "historical"
    /\ IsInt(_hist_at(last_call.info, last_call.when))
    => last_call.val = _hist_at(last_call.info, last_call.when)

sourceRank(source) == IF source = "live" THEN 2 ELSE 1

\* observation a is above observation b in the order (sourceRank, value)
Above(a, b) ==
    \/ sourceRank(a.src) > sourceRank(b.src)
    \/ sourceRank(a.src) = sourceRank(b.src) /\ a.val > b.val

\* C11: the observation the sub-venue tier of resolve_and_measure_at returns is one
\* of the readings of the nearby candidates that have a value, and none of them is
\* above it in the order (sourceRank, value), live = 2 > historical = 1: a live
\* reading beats every historical one, among equal sources the higher value wins;
\* the tier yields nothing exactly when no candidate has a value
C11_BestSubvenueIsMaximal ==
    /\ best = NoBest <=> sub_obs = <<>>
    /\ rm_state = "returned" /\ rm_result.method \in {"area_weighted", "none"}
         => sub_obs = <<>>
    /\ rm_state = "returned" /\ rm_result.method = "subvenue" =>
         /\ \E i \in 1..Len(sub_obs) :
              /\ sub_obs[i].val = rm_result.popularity
              /\ sub_obs[i].src = rm_result.source
              /\ sub_obs[i].id = rm_result.subvenue
              /\ \A j \in 1..Len(sub_obs) : ~ Above(sub_obs[j], sub_obs[i])
         /\ (\E j \in 1..Len(sub_obs) : sub_obs[j].src = "live")
              => rm_result.source = "live"

C11_Witness ==
    /\ rm_state = "returned" /\ rm_result.method = "subvenue"
    /\ ~ IsInt(val)
    /\ rm_result.popularity = 80 /\ rm_result.source = "live"
    /\ \E j \in 1..Len(sub_obs) : sub_obs[j].src = "historical" /\ sub_obs[j].val = 100

\* p is sum(w * value) / sum(w) rounded to an integer, w = exp(-d^2 / (2 * 150^2)),
\* d the distance from center: no integer is nearer to the quotient than p
KernelEstimate(p, center, smpls) ==
    LET w(i) == GaussWeight(Abs(smpls[i].location - center))
        num == SumSeq([i \in 1..Len(smpls) |-> w(i) * smpls[i].val])
        den == SumSeq([i \in 1..Len(smpls) |-> w(i)])
    IN 2 * Abs(p * den - num) <= den

Scenario_60_20 == << [location |-> 0, val |-> 60], [location |-> 200, val |-> 20] >>

\* C12: when the place and every sub-venue candidate have no value and there are
\* area samples, resolve_and_measure_at returns method 'area_weighted', source
\* 'area' and as popularity the Gaussian-kernel weighted estimate of the samples;
\* the samples (0 m, 60) and (200 m, 20) give the estimate 48
C12_AreaWeightedEstimate ==
    /\ rm_state = "returned" /\ ~ rm_result.is_none
         /\ ~ IsInt(val) /\ sub_obs = <<>> /\ samples # <<>>
       => /\ rm_result.method = "area_weighted"
          /\ rm_result.source = "area"
          /\ KernelEstimate(rm_result.popularity, top.location, samples)
          /\ rm_result.samples_used = Len(samples)
    /\ fn.name = "_weighted_area_estimate" /\ fn.args = Scenario_60_20
       => fn.out = Returns(48)

C12_Witness ==
    /\ rm_state = "returned" /\ rm_result.method = "area_weighted"
    /\ ~ IsInt(val) /\ sub_obs = <<>> /\ calls.pop_sub >= 1
    /\ Len(samples) = 2
    /\ samples[1].location # samples[2].location
    /\ samples[1].val # samples[2].val
    /\ 2 * rm_result.popularity # samples[1].val + samples[2].val

\* what find_peak_time returned
FptDone == pc = "done" /\ callee = "find_peak_time" /\ ~ raised

\* C13: whenever find_peak_time returns status 'success', its peak_window contains
\* the first element of peak_hours, which is a sample with the highest popularity
\* of the hourly grid, also when the maximum is 0 and when hours tie for it
C13_PeakWindowHasPeak ==
    FptDone /\ Inner.status = "success" =>
        /\ Inner.peak_hours # <<>>
        /\ "peak_window" \in Inner.keys
        /\ \A i \in 1..Len(Inner.all_hours) :
              Inner.all_hours[i].popularity <= Inner.peak_hours[1].popularity
        /\ \E i \in 1..Len(Inner.peak_window) : Inner.peak_window[i] = Inner.peak_hours[1]

C13_Witness ==
    /\ FptDone /\ Inner.status = "success"
    /\ Inner.peak_hours[1].popularity = 0
    /\ Len(Inner.peak_window) > 1

\* the items of sequence a are items of sequence b
ItemsOf(a, b) == \A i \in 1..Len(a) : \E j \in 1..Len(b) : a[i] = b[j]

\* what datetime.now() can return during the call
ClockReadings == { now + k * Tick : k \in 0..MaxTicks }

\* C14: find_peak_time asks the popularity provider once for each hour 7, ..., 22
\* of the requested day, in increasing order, 16 calls in all, each with
\* allow_live=False; the requested day is the day of the clock's reading after the
\* text search, day_offset days on; every sample of all_hours, peak_hours and peak_window is the
\* historical reading of its hour in the payload the call for that hour returned,
\* also when the hour is now and the payload has a live reading
C14_SixteenHistoricalCalls ==
    callee = "find_peak_time" =>
        /\ pc = "fpt_pop" => calls.pop_peak = hour - 7
        /\ calls.pop_peak >= 1 =>
             /\ ~ last_call.allow_live
             /\ last_call.src # "live"
             /\ \E t \in ClockReadings : t <= clock /\ base_date = t + days(day_offset)
             /\ last_call.when =
                  (base_date \div SecPerDay) * SecPerDay
                    + (6 + calls.pop_peak) * SecPerHour
             /\ "pop_peak" \notin failed =>
                  /\ last_call.info = info
                  /\ last_call.val = _hist_around(info, last_call.when, 1)
                  /\ IsInt(last_call.val) =>
                       /\ hourly_data # <<>>
                       /\ hourly_data[Len(hourly_data)].hour = 6 + calls.pop_peak
                       /\ hourly_data[Len(hourly_data)].popularity = last_call.val
                       /\ hourly_data[Len(hourly_data)].datetime = last_call.when
                  /\ ~ IsInt(last_call.val) =>
                       \A i \in 1..Len(hourly_data) : hourly_data[i].hour < 6 + calls.pop_peak
        /\ pc = "done" /\ top.found /\ failed = {} => calls.pop_peak = 16
        /\ FptDone /\ Inner.status = "success" =>
             /\ Inner.all_hours = hourly_data
             /\ \A i \in 1..Len(Inner.all_hours) :
                  LET item == Inner.all_hours[i]
                  IN /\ item.hour \in 7..22
                     /\ provider.changes = 0 =>
                          item.popularity = _hist_around(info, item.datetime, 1)
                     /\ i > 1 => Inner.all_hours[i - 1].hour < item.hour
             /\ ItemsOf(Inner.peak_hours, Inner.all_hours)
             /\ ItemsOf(Inner.peak_window, Inner.all_hours)

\* the 16 calls return a payload with the live reading 80, and the sample of 14:00,
\* which is now, is not that reading
C14_Witness ==
    /\ FptDone /\ Inner.status = "success" /\ calls.pop_peak = 16
    /\ day_offset = 0 /\ now = Mon_13_50
    /\ provider.changes = 0 /\ info.current_popularity = 80
    /\ \E i \in 1..Len(Inner.all_hours) :
         /\ Inner.all_hours[i].hour = 14
         /\ _is_now(Inner.all_hours[i].datetime, now)
         /\ Inner.all_hours[i].popularity # 80

\* C15 (as claimed): when the place resolves and no hour of the grid has
\* historical data, find_peak_time returns status 'unavailable' with peak_hours and
\* peak_window both present and empty
C15_NoDataReport ==
    FptDone /\ top.found /\ failed = {} /\ hourly_data = <<>> =>
        /\ Inner.status = "unavailable"
        /\ "peak_hours" \in Inner.keys /\ Inner.peak_hours = <<>>
        /\ "peak_window" \in Inner.keys /\ Inner.peak_window = <<>>

\* C16: _is_now(t) is true exactly when t is at most 30 minutes from now, the
\* boundary included; _parse_when of a text that contains 'now' is the current
\* time, so that get_busyness_at_time hands the current time to
\* resolve_and_measure_at and every popularity call of the cascade, the place
\* tier first, is made with allow_live=True
C16_NowIsLive ==
    /\ fn.name = "_is_now" =>
         fn.out = Returns(now - 1800 <= fn.args /\ fn.args <= now + 1800)
    /\ fn.name = "_parse_when" /\ Contains(lower(fn.args), KW_now) =>
         fn.out = Returns(now)
    /\ callee = "get_busyness_at_time" /\ Contains(lower(query), KW_now) =>
         /\ when = now
         /\ pc \in {"place_pop", "sub_nearby", "sub_pop", "area_nearby", "area_pop"}
              => allow_live
         /\ calls.pop_place >= 1 => last_call.allow_live /\ last_call.when = now

C16_Witness ==
    /\ fn.name = "_is_now" /\ fn.args = now + 1800
    /\ fn.out = Returns(TRUE)

T_today == <<" ","t","o","d","a","y">>
T_tomorrow == <<" ","t","o","m","o","r","r","o","w">>
T_busch_around == <<"B","u","s","c","h"," ","a","r","o","u","n","d"," ">>

\* the decimal text of n, 0 <= n <= 99, without leading zero
HourText(n) == IF n < 10 THEN << Digits[n + 1] >> ELSE TwoDigits(n)

\* hour h, minute m, second 0 of today, or of tomorrow when the day word d is tomorrow
AtDay(d, h, m) ==
    ((now \div SecPerDay) + (IF d = T_tomorrow THEN 1 ELSE 0)) * SecPerDay
      + h * SecPerHour + m * SecPerMin

\* C17: for a text whose time expression is 'H pm', 1 <= H <= 11, _parse_when
\* returns hour H + 12, minute 0, second 0 of the contextual day, today or, when
\* the text contains 'tomorrow', tomorrow; '12pm' gives hour 12, '12am' hour 0,
\* and 'H:MM' minute MM
C17_ParsePm ==
    fn.name = "_parse_when" =>
        \A p \in TimePrefixes, d \in { <<>>, T_today, T_tomorrow } :
            /\ \A H \in 1..11, sep \in { <<>> } \cup { << c >> : c \in WhiteSpace } :
                 fn.args = p \o HourText(H) \o sep \o KW_pm \o d
                   => fn.out = Returns(AtDay(d, H + 12, 0))
            /\ fn.args = p \o HourText(12) \o KW_pm \o d
                 => fn.out = Returns(AtDay(d, 12, 0))
            /\ fn.args = p \o HourText(12) \o KW_am \o d
                 => fn.out = Returns(AtDay(d, 0, 0))
            /\ \A H \in 0..13, MM \in { 0, 5, 59 } :
                 /\ fn.args = p \o HourText(H) \o <<":">> \o TwoDigits(MM) \o d
                      => fn.out = Returns(AtDay(d, H, MM))
                 /\ H \in 1..11
                      /\ fn.args = p \o HourText(H) \o <<":">> \o TwoDigits(MM) \o KW_pm \o d
                      => fn.out = Returns(AtDay(d, H + 12, MM))

C17_Witness ==
    /\ fn.name = "_parse_when"
    /\ fn.args = T_busch_around \o <<"7">> \o KW_pm \o T_tomorrow
    /\ fn.out = Returns(((now \div SecPerDay) + 1) * SecPerDay + 19 * SecPerHour)

NoDigit(q) == \A i \in 1..Len(q) : ~ IsDigit(q[i])

\* C18: _parse_when raises for no text; a text without a time expression gives
\* the current time; a text with an hour above 23 or a minute above 59 gives a
\* time of a valid hour and minute, second 0, of today or tomorrow
C18_ParseNeverRaises ==
    fn.name = "_parse_when" =>
        /\ ~ fn.out.raises
        /\ NoDigit(fn.args) => fn.out.value = now
        /\ \/ fn.out.value = now
           \/ /\ fn.out.value % SecPerMin = 0
              /\ fn.out.value \div SecPerDay
                   \in { now \div SecPerDay, (now \div SecPerDay) + 1 }
        /\ \A p \in TimePrefixes, d \in { <<>>, T_today, T_tomorrow } :
             /\ fn.args = p \o <<"9","9">> \o <<":","9","9">> \o d
                  => fn.out.value = AtDay(d, 23, 59)
             /\ fn.args = p \o <<"2","4">> \o d => fn.out.value = AtDay(d, 23, 0)
             /\ fn.args = p \o <<"7">> \o <<":","6","0">> \o KW_pm \o d
                  => fn.out.value = AtDay(d, 19, 59)

C18_Witness ==
    /\ fn.name = "_parse_when"
    /\ fn.args = <<"a","t"," ">> \o <<"9","9">> \o <<":","9","9">> \o KW_pm
    /\ ~ fn.out.raises
    /\ hour_of(fn.out.value) = 23 /\ minute_of(fn.out.value) = 59

\* the sample has a positive weight: exp(-d^2 / (2 * 150^2)) > 0
PositiveWeight(sample) == GaussWeight(Abs(sample.location)) > 0

\* C19: _weighted_area_estimate returns None exactly when no sample has a positive
\* weight, that is for the empty list and when the weights sum to zero, and an
\* integer otherwise
C19_NullIffNoWeight ==
    fn.name = "_weighted_area_estimate" =>
        /\ ~ fn.out.raises
        /\ fn.out.value = None
             <=> ~ \E i \in 1..Len(fn.args) : PositiveWeight(fn.args[i])
        /\ fn.args = <<>> => fn.out.value = None

C19_Witness ==
    /\ fn.name = "_weighted_area_estimate"
    /\ Len(fn.args) = 2
    /\ \A i \in 1..2 : ~ PositiveWeight(fn.args[i]) /\ fn.args[i].val = 75
    /\ fn.out.value = None

\* the samples mirrored at the center
Mirror(smpls) == [i \in 1..Len(smpls) |-> [smpls[i] EXCEPT !.location = 0 - @]]

\* C20: when the weights sum to a positive number the estimate lies between the
\* smallest and the greatest sample value, so equal values v give exactly v (one
\* sample at distance 0 with value 75 gives 75); the estimate only depends on
\* the distances and the values: the mirrored samples give the same estimate
C20_EstimateWithinValues ==
    fn.name = "_weighted_area_estimate" /\ fn.out.value # None =>
        /\ \E i \in 1..Len(fn.args) : fn.args[i].val <= fn.out.value
        /\ \E i \in 1..Len(fn.args) : fn.args[i].val >= fn.out.value
        /\ \A v \in SampleVals :
             (\A i \in 1..Len(fn.args) : fn.args[i].val = v) => fn.out.value = v
        /\ fn.args = << [location |-> 0, val |-> 75] >> => fn.out.value = 75
        /\ fn.out.value \in _weighted_area_estimate(0, Mirror(fn.args))
        /\ _weighted_area_estimate(0, Mirror(fn.args)) = _weighted_area_estimate(0, fn.args)

C20_Witness ==
    /\ fn.name = "_weighted_area_estimate"
    /\ fn.args = << [location |-> 200, val |-> 75], [location |-> 0 - 200, val |-> 75] >>
    /\ fn.out.value = 75

\* the keywords of the claim, in lower case
HasPeakKeyword(q) ==
    \E kw \in { KW_busiest, KW_most_crowded, KW_peak_time, KW_peak_hour, KW_most_busy } :
       Contains(lower(q), kw)
HasTimeKeyword(q) ==
    \E kw \in { KW_at, KW_around, KW_pm, KW_am, KW_oclock } : Contains(lower(q), kw)
QueryType(q) ==
    IF HasPeakKeyword(q) THEN "peak_time"
    ELSE IF HasTimeKeyword(q) /\ ~ Contains(lower(q), KW_now) THEN "specific_time"
    ELSE "current"

\* C21: extract_busyness_query_type returns 'peak_time' for a text with a peak
\* keyword, whatever else it holds, else 'specific_time' for a text with a time
\* keyword and without 'now', else 'current'; the three texts of the test script
\* get specific_time, peak_time and current; and query_busyness runs find_peak_time
\* exactly for 'peak_time' and get_busyness_at_time for the other two, never both
C21_QueryTypeRoutes ==
    /\ fn.name = "extract_busyness_query_type" =>
         /\ ~ fn.out.raises
         /\ fn.out.value \in { "peak_time", "specific_time", "current" }
         /\ fn.out.value = QueryType(fn.args)
         /\ fn.args = Q_test_livi_2pm => fn.out.value = "specific_time"
         /\ fn.args = Q_busch_peak => fn.out.value = "peak_time"
         /\ fn.args = Q_gym_now => fn.out.value = "current"
    /\ entry = "query_busyness" /\ BUSYNESS_AVAILABLE =>
         /\ callee \in { "find_peak_time", "get_busyness_at_time" }
         /\ callee = "find_peak_time" <=> QueryType(query) = "peak_time"
         /\ callee = "find_peak_time" =>
               /\ rm_state = "none"
               /\ calls.pop_place + calls.pop_sub + calls.pop_area = 0
               /\ calls.nearby_sub + calls.nearby_area = 0
         /\ callee = "get_busyness_at_time" => rm_state # "none" /\ calls.pop_peak = 0
         /\ pc = "done" /\ response.status # "error" =>
               response.query_type = QueryType(query)

\* query_busyness has answered a text with a time keyword ('at' in 'What') and a
\* peak keyword through find_peak_time and its sixteen hourly readings
C21_Witness ==
    /\ entry = "query_busyness" /\ query = Q_busch_peak /\ callee = "find_peak_time"
    /\ HasTimeKeyword(query) /\ HasPeakKeyword(query)
    /\ pc = "done" /\ response.status = "success" /\ response.query_type = "peak_time"
    /\ calls.pop_peak = 16

\* the hours of a sequence of hourly samples
HoursOf(items) == { items[i].hour : i \in 1..Len(items) }

\* C22 (as claimed): whenever find_peak_time returns status 'success', peak_window
\* is in strictly increasing hour order and skips no hour: every hour of the grid
\* with a sample between the first and the last hour of peak_window is in peak_window
C22_PeakWindowContiguous ==
    FptDone /\ Inner.status = "success" =>
        LET w == Inner.peak_window
        IN /\ \A i \in 2..Len(w) : w[i - 1].hour < w[i].hour
           /\ \A h \in HoursOf(Inner.all_hours) :
                 w # <<>> /\ w[1].hour < h /\ h < w[Len(w)].hour => h \in HoursOf(w)

\* the samples with the n highest popularities of the grid: none outside is
\* strictly above one inside
TopOf(top_n, grid) ==
    \A i \in 1..Len(grid) :
       (\A k \in 1..Len(top_n) : top_n[k] # grid[i]) =>
           \A k \in 1..Len(top_n) : grid[i].popularity <= top_n[k].popularity

\* the highest popularity of the grid
MaxPopularity(grid) ==
    CHOOSE m \in { grid[i].popularity : i \in 1..Len(grid) } :
       \A i \in 1..Len(grid) : grid[i].popularity <= m

\* C23: whenever find_peak_time returns status 'success' with n hours having data,
\* peak_hours holds min(3, n) distinct samples of the grid in non-increasing
\* popularity order, no sample outside peak_hours is strictly above one inside, and
\* peak_window is exactly the samples of the grid at or above 0.85 times the
\* highest popularity, in the order of the grid
C23_TopThreeAndWindow ==
    FptDone /\ Inner.status = "success" =>
        LET grid == Inner.all_hours
            n == Len(grid)
            top_n == Inner.peak_hours
        IN /\ n >= 1
           /\ Len(top_n) = Min(3, n)
           /\ ItemsOf(top_n, grid)
           /\ \A i, j \in 1..Len(top_n) : i # j => top_n[i].hour # top_n[j].hour
           /\ \A i \in 2..Len(top_n) : top_n[i - 1].popularity >= top_n[i].popularity
           /\ TopOf(top_n, grid)
           /\ Inner.peak_window =
                SelectSeq(grid, LAMBDA item :
                                  100 * item.popularity >= 85 * MaxPopularity(grid))

\* the grid has sixteen samples of differing popularity: the three highest are
\* the last three hours, latest first, and the peak window leaves samples out
C23_Witness ==
    /\ FptDone /\ Inner.status = "success"
    /\ Len(Inner.all_hours) = 16
    /\ Inner.peak_hours[1].popularity > Inner.peak_hours[2].popularity
    /\ Inner.peak_hours[2].popularity > Inner.peak_hours[3].popularity
    /\ << Inner.peak_hours[1].hour, Inner.peak_hours[2].hour, Inner.peak_hours[3].hour >>
         = << 22, 21, 20 >>
    /\ Len(Inner.peak_window) \in 2..15

\* the popularity calls of resolve_and_measure_at
RmPopCalls == calls.pop_place + calls.pop_sub + calls.pop_area

\* C24: resolve_and_measure_at issues its upstream calls one after another, tier by
\* tier: at most 1 text search, at most 2 nearby searches, each asking for 15
\* results (within 1..20) of at most 5 types and answered by at most 15 places, one
\* popularity call for the place and at most one for each place of either list (at
\* most 31), each after the pacing delay; every step of the call is the return of
\* one upstream call, so the call ends when they all return
C24_BoundedSequentialCalls ==
    callee = "get_busyness_at_time" =>
        /\ calls.text <= 1 /\ calls.pop_place <= 1
        /\ calls.nearby_sub <= 1 /\ calls.nearby_area <= 1
        /\ calls.pop_place = 1 => calls.text = 1
        /\ calls.nearby_sub = 1 => calls.pop_place = 1
        /\ calls.pop_sub >= 1 => calls.nearby_sub = 1
        /\ calls.nearby_area = 1 => calls.nearby_sub = 1
        /\ calls.pop_area >= 1 => calls.nearby_area = 1
        /\ nearby_body # NoBody =>
              /\ nearby_body.maxResultCount = 15
              /\ nearby_body.maxResultCount \in 1..20
              /\ Len(nearby_body.includedTypes) <= 5
              /\ Len(places) <= nearby_body.maxResultCount
        /\ pc = "sub_pop" => calls.pop_sub = Cardinality({ i \in 1..(idx - 1) : places[i].id # "" })
        /\ pc = "area_pop" => calls.pop_area = Cardinality({ i \in 1..(idx - 1) : places[i].id # "" })
        /\ calls.pop_sub <= Min(15, MaxCand) /\ calls.pop_area <= Min(15, MaxCand)
        /\ RmPopCalls <= 31
        /\ RmPopCalls >= 1 => last_call.slept > 0
        /\ pc = "text_search" <=> calls.text = 0
        /\ pc # "done" <=> rm_state = "running"

\* the longest call: the place has no value, both nearby searches return MaxCand
\* places with an id, and each of them is asked for its popularity
C24_Witness ==
    /\ callee = "get_busyness_at_time" /\ pc = "done" /\ rm_state = "returned"
    /\ calls.text = 1 /\ calls.nearby_sub = 1 /\ calls.nearby_area = 1
    /\ calls.pop_place = 1 /\ calls.pop_sub = MaxCand /\ calls.pop_area = MaxCand
    /\ nearby_body.maxResultCount = 15
    /\ last_call.slept = 200

\* resolve_and_measure: the nearby searches issued for sub-venues and for the area
RmSubSearches == calls.rm_try_sub + calls.rm_nearby_sub
RmAreaSearches == calls.rm_try_area + calls.rm_nearby_area
RmDone == callee = "resolve_and_measure" /\ pc = "api_done"

\* C25 (as claimed): in resolve_and_measure no nearby search for the area is issued
\* until the sub-venue tier has been evaluated without a value, a query answered by
\* the sub-venue tier has issued none, and each tier issues at most one nearby search
C25_StrictCascade ==
    callee = "resolve_and_measure" =>
        /\ pc \in { "api_try_sub_nearby", "api_try_area_nearby", "api_sub_nearby",
                    "api_sub_pop" } => RmAreaSearches = 0
        /\ RmDone /\ ~ raised /\ response.status_code = 200
             /\ response.result.method = "subvenue" => RmAreaSearches = 0
        /\ RmSubSearches <= 1
        /\ RmAreaSearches <= 1

\* resolve_and_measure: the nearby searches that were issued, and those that failed
RmNearbySites == { "rm_try_sub", "rm_try_area", "rm_nearby_sub", "rm_nearby_area" }
RmNearbyIssued == { site \in RmNearbySites : calls[site] > 0 }

\* C26 (as claimed): when the place tier of resolve_and_measure has no value and
\* every nearby search that is issued fails, resolve_and_measure returns the
\* terminal result (popularity null, source 'unavailable', method 'none') and no
\* exception reaches the handler
C26_NearbyFailureAbsorbedApi ==
    RmDone /\ calls.rm_pop_place = 1 /\ "rm_pop_place" \notin failed /\ ~ IsInt(val)
      /\ RmNearbyIssued # {} /\ RmNearbyIssued \subseteq failed =>
        /\ ~ raised
        /\ response.status_code = 200
        /\ response.result.popularity = None
        /\ response.result.source = "unavailable"
        /\ response.result.method = "none"

\* C27: every result of resolve_and_measure_at other than None has method 'place' or
\* 'subvenue' with source 'live' or 'historical' and an integer popularity, or
\* method 'area_weighted' with source 'area' and an integer popularity, or method
\* 'none' with source 'unavailable' and popularity null, and no other combination;
\* its place_id and name are those of the resolved place, also for a sub-venue value
C27_MethodSourceConsistent ==
    RmReturned =>
        LET r == rm_result
        IN /\ r.method \in { "place", "subvenue", "area_weighted", "none" }
           /\ r.method \in { "place", "subvenue" } =>
                 r.source \in { "live", "historical" } /\ IsInt(r.popularity)
           /\ r.method = "area_weighted" <=> r.source = "area"
           /\ r.method = "area_weighted" => IsInt(r.popularity)
           /\ r.method = "none" <=> r.source = "unavailable"
           /\ r.source = "unavailable" <=> r.popularity = None
           /\ r.place_id = top.id
           /\ r.name = NameOf(top, target)
           /\ r.method = "subvenue" <=> r.subvenue # ""

\* the value of the result is the live reading of sub-venue sv2, and the result
\* carries the id and the name of the resolved place
C27_Witness ==
    /\ RmReturned
    /\ rm_result.method = "subvenue" /\ rm_result.subvenue = "sv2"
    /\ rm_result.source = "live" /\ rm_result.popularity = 80
    /\ rm_result.place_id = "p1" /\ rm_result.name = NAME_top

\* C28: when the upstream providers are deterministic within the query (the same
\* nearby request gets the same answer, the same place, time and allow_live the
\* same reading), resolve_and_measure_at never returns method 'area_weighted'
C28_AreaTierUnreachable ==
    RmRunning /\ provider.deterministic =>
        /\ samples = <<>>
        /\ RmReturned => rm_result.method # "area_weighted"
        /\ calls.nearby_area = 1 /\ top.location # None =>
              \E e \in provider.nearby :
                 /\ e.body = area_nearby_body /\ e.body = sub_nearby_body
                 /\ "nearby_sub" \in failed <=> "nearby_area" \in failed
                 /\ ~ e.out.raises /\ pc # "area_nearby" => places = e.out.value

\* deterministic providers: both tiers got the same list, with a place that has an
\* id and coordinates, every reading of both tiers was without value, and the
\* result is the terminal one
C28_Witness ==
    /\ RmReturned /\ provider.deterministic
    /\ calls.nearby_sub = 1 /\ calls.nearby_area = 1 /\ failed = {}
    /\ \E i \in 1..Len(places) : places[i].id # "" /\ places[i].location # None
    /\ calls.pop_sub >= 1 /\ calls.pop_area = calls.pop_sub
    /\ rm_result.method = "none"

\* the number written by the first run of one or two digits of q
FirstDigits(q) ==
    LET f == CHOOSE i \in 1..Len(q) : IsDigit(q[i]) /\ \A j \in 1..(i - 1) : ~ IsDigit(q[j])
    IN IF f < Len(q) /\ IsDigit(q[f + 1])
       THEN 10 * DigitVal(q[f]) + DigitVal(q[f + 1])
       ELSE DigitVal(q[f])

\* the text holds 'now' in any case of letters, inside a word or not
HoldsNow(q) ==
    \E i \in 1..(Len(q) - 2) :
       /\ q[i] \in { "n", "N" } /\ q[i + 1] \in { "o", "O" } /\ q[i + 2] \in { "w", "W" }

\* C29: _parse_when returns the current time for every text that holds 'now'
\* anywhere, also inside a word and next to an hour or 'tomorrow'; for a text
\* without 'now' the hour comes from the first run of one or two digits of the
\* text, preceded by 'at' or 'around' or not, followed by am or pm or not
C29_NowAnywhereFirstDigits ==
    fn.name = "_parse_when" =>
        /\ HoldsNow(fn.args) => fn.out = Returns(now)
        /\ ~ HoldsNow(fn.args) /\ ~ NoDigit(fn.args) =>
             LET h == FirstDigits(fn.args)
             IN /\ ~ fn.out.raises
                /\ \/ hour_of(fn.out.value) = Min(h, 23)
                   \/ h < 12 /\ hour_of(fn.out.value) = h + 12
                   \/ h = 12 /\ hour_of(fn.out.value) = 0
        /\ fn.args = Q_hall_2_at_7pm => fn.out = Returns(AtDay(T_tomorrow, 2, 0))
        /\ fn.args = Q_room_101_at_7pm => fn.out = Returns(AtDay(<<>>, 10, 0))
        /\ fn.args = Q_7_or_8pm => fn.out = Returns(AtDay(<<>>, 7, 0))
        /\ fn.args = Q_open_9_tomorrow => fn.out = Returns(AtDay(T_tomorrow, 9, 0))

\* 'snow 7pm tomorrow' gives the current time, not 19:00 of tomorrow
C29_Witness ==
    /\ fn.name = "_parse_when"
    /\ fn.args = Q_snow_7pm_tomorrow
    /\ fn.out = Returns(now)
    /\ now # AtDay(T_tomorrow, 19, 0)

\* the requested time is more than 30 minutes away from the current time
\* the time of the query is more than 30 minutes away from now, whenever the
\* clock is read during the call
FarFromNow == \A t \in ClockReadings : Abs(when - t) > 30 * SecPerMin

\* C30: resolve_and_measure_at computes allow_live once, from _is_now(when_local)
\* at a reading of the clock after the text search, and passes it to the
\* popularity call of every tier; for a time more than 30
\* minutes away from now no tier reads a live value: no call is made with
\* allow_live, no reading, no best sub-venue, no area sample and no result is live
C30_NoLiveFarFromNow ==
    RmRunning /\ top.found =>
        /\ \E t \in ClockReadings : t <= clock /\ allow_live = _is_now(when, t)
        /\ RmPopCalls >= 1 => last_call.allow_live = allow_live
        /\ FarFromNow =>
              /\ ~ allow_live
              /\ RmPopCalls >= 1 => ~ last_call.allow_live /\ last_call.src # "live"
              /\ src # "live" /\ best.src # "live"
              /\ \A i \in 1..Len(sub_obs) : sub_obs[i].src # "live"
              /\ \A i \in 1..Len(samples) : samples[i].val \notin CurrVals
              /\ calls.pop_area >= 1 /\ IsInt(last_call.val) =>
                    last_call.val = _hist_around(last_call.info, when, 1)
              /\ RmReturned => rm_result.source # "live"
              /\ pc = "done" => Inner.source # "live"

\* a query for 11:40 of tomorrow is answered by the area estimate, and the place
\* of the last sample has a live reading, which was not taken
C30_Witness ==
    /\ RmRunning /\ FarFromNow /\ query = Q_cafe_tomorrow
    /\ RmReturned /\ rm_result.method = "area_weighted"
    /\ calls.pop_area >= 1 /\ samples # <<>>
    /\ last_call.info.current_popularity = 80
    /\ last_call.src = "historical"
    /\ samples[Len(samples)].val = last_call.val
====
